---------------------------- MODULE Spec2Model ----------------------------
(***************************************************************************)
(* Delivery-route planner of refdudu/logica-entrega: the path oracle       *)
(* (src/src/ai/astar.py), the truck (src/src/models/truck.py), the route   *)
(* executor (src/src/core/simulator.py) and the genetic optimizer          *)
(* (src/src/ai/genetic.py).                                                *)
(*                                                                         *)
(* Numbers.  Path costs are kept in thousandths (1.0 is 1000), node        *)
(* coordinates in thousandths of a degree, integrity in percent points,    *)
(* lengths in metres, travel times of the executor in quarter seconds.     *)
(* float('inf') is the saturating value Inf, float('nan') is NaN.          *)
(* Python's None is NoneVal.                                               *)
(***************************************************************************)
EXTENDS Integers, Sequences, FiniteSets, TLC

VARIABLES
    graph,          \* the networkx MultiDiGraph: <<u, v>> -> key dict of parallel edges
    orders,         \* the list of Order records (current_integrity, delivered are mutable)
    q,              \* the oracle query in progress: start, end, is_fragile, path, cost
    use_ai_pathing, \* argument of _execute_delivery_route
    pc,             \* position of _execute_delivery_route
    seq_pos,        \* index (1-based) into sequence_orders of the order being handled
    current_node,   \* local of _execute_delivery_route
    cargo,          \* Truck.cargo: list of indices into orders
    totals,         \* total_time (quarter seconds) and total_dist (metres)
    result,         \* the dictionary returned by _execute_delivery_route
    trace,          \* history of the legs requested by the executor
    individual,     \* argument of GeneticTSP._calculate_fitness
    fit,            \* its outcome: score and the legs it costed
    ga,             \* the state of GeneticTSP.solve
    returned,       \* the value the last call of a Truck method returned
    app             \* LogisticsApp: its attributes, its threads and its event queue

vars == <<graph, orders, q, use_ai_pathing, pc, seq_pos, current_node, cargo,
          totals, result, trace, individual, fit, ga, returned, app>>

-----------------------------------------------------------------------------
(* Bounds of the model *)
NumNodes == 3
MaxOrders == 2
PopSize == 3
Generations == 2

(* Program constants *)
Inf == 2000000000
NaN == -2
NoneVal == -1
Unit == 1000
depot_node == 0
Capacity == 30
PenaltyBadFragile == 5000000
PenaltyBadNormal == 1400
BlockPenaltyQs == 28800
DefaultTravelTime == 1
MinSpeed == 5
TournamentK == 3

Nodes == 0 .. (NumNodes - 1)

Max(a, b) == IF a >= b THEN a ELSE b
Min(a, b) == IF a <= b THEN a ELSE b

(* float addition with infinity and nan *)
Plus(a, b) == IF a = NaN \/ b = NaN THEN NaN
              ELSE IF a = Inf \/ b = Inf THEN Inf ELSE a + b

(* dict.get(key, default) *)
DGet(d, key, default) == IF key \in DOMAIN d THEN d[key] ELSE default

-----------------------------------------------------------------------------
(* Edge attribute dictionaries as the map loader writes them *)
Good == [length |-> 100, maxspeed |-> 40, traffic_level |-> 0,
         pavement_quality |-> "good", road_block |-> FALSE, travel_time |-> 2]
Bad == [length |-> 500, maxspeed |-> 40, traffic_level |-> 0,
        pavement_quality |-> "bad", road_block |-> FALSE, travel_time |-> 1]
Rough == [length |-> 12000, maxspeed |-> 40, traffic_level |-> 0,
          pavement_quality |-> "bad", road_block |-> FALSE, travel_time |-> 3]
Blocked == [length |-> 100, maxspeed |-> 8, traffic_level |-> 1,
            pavement_quality |-> "good", road_block |-> TRUE, travel_time |-> 1]

(* A MultiDiGraph keeps, per ordered node pair, a dictionary from the edge  *)
(* key (0, 1, ...) to the attribute dictionary of that parallel edge.       *)
KeyOf(i) == IF i = 0 THEN "0" ELSE IF i = 1 THEN "1" ELSE "2"
KeyDict(es) == [k \in {KeyOf(i - 1) : i \in 1 .. Len(es)} |->
                  es[CHOOSE i \in 1 .. Len(es) : KeyOf(i - 1) = k]]

(* G[u]: the neighbours of u, in ascending order *)
RECURSIVE SetToSeq(_)
SetToSeq(S) == IF S = {} THEN <<>>
               ELSE LET m == CHOOSE x \in S : \A y \in S : x <= y
                    IN <<m>> \o SetToSeq(S \ {m})
Succ(G, u) == {v \in Nodes : <<u, v>> \in DOMAIN G}
Neighbors(G, u) == SetToSeq(Succ(G, u))

-----------------------------------------------------------------------------
(* AStarNavigator (src/src/ai/astar.py) *)

(* Node coordinates: x = y = n thousandths of a degree *)
Coord(n) == [x |-> n, y |-> n]

ISqrt(n) == CHOOSE r \in 0 .. n : r * r <= n /\ (r + 1) * (r + 1) > n

(* _heuristic: Euclidean distance between the coordinates of u and v *)
_heuristic(u, v) ==
    LET dx == Coord(u).x - Coord(v).x
        dy == Coord(u).y - Coord(v).y
    IN ISqrt(dx * dx + dy * dy)

(* A weight function that hides (None) a node pair with a bad edge from a   *)
(* fragile trip                                                             *)
weight_function_HideBad(d, is_fragile) ==
    IF is_fragile /\ \E k \in DOMAIN d : d[k].pavement_quality = "bad"
    THEN NoneVal ELSE Unit

(* weight_function of get_path.  d is what networkx hands to a callable     *)
(* weight: G[u][v], which for a MultiDiGraph is the key dictionary.         *)
weight_function(d, is_fragile) ==
    IF DGet(d, "road_block", FALSE) THEN Inf
    ELSE LET pavement_penalty ==
                 IF DGet(d, "pavement_quality", "") = "bad"
                 THEN (IF is_fragile THEN PenaltyBadFragile ELSE PenaltyBadNormal)
                 ELSE Unit
             traffic_factor == 1 + DGet(d, "traffic_level", 0)
             travel_time == DGet(d, "travel_time", DefaultTravelTime)
         IN travel_time * pavement_penalty * traffic_factor

(* weight_function of get_path_cost: the same text a second time *)
weight_function_cost(d, is_fragile) ==
    IF DGet(d, "road_block", FALSE) THEN Inf
    ELSE LET pavement_penalty ==
                 IF DGet(d, "pavement_quality", "") = "bad"
                 THEN (IF is_fragile THEN PenaltyBadFragile ELSE PenaltyBadNormal)
                 ELSE Unit
             traffic_factor == 1 + DGet(d, "traffic_level", 0)
             travel_time == DGet(d, "travel_time", DefaultTravelTime)
         IN travel_time * pavement_penalty * traffic_factor

(* heapq order of (priority, counter, ...) tuples *)
HeapMin(queue) == CHOOSE e \in queue : \A o \in queue :
                     e[1] < o[1] \/ (e[1] = o[1] /\ e[2] <= o[2])

(* networkx.astar_path: walk the parents back from the target *)
RECURSIVE AStarBack(_, _, _)
AStarBack(explored, node, path) ==
    IF node = NoneVal THEN path
    ELSE AStarBack(explored, explored[node], <<node>> \o path)

(* networkx.astar_path: the loop over G[curnode].items() *)
RECURSIVE AStarRelax(_, _, _, _, _, _, _)
AStarRelax(G, target, is_fragile, curnode, dist, nbrs, st) ==
    IF nbrs = <<>> THEN st
    ELSE LET neighbor == Head(nbrs)
             cost == weight_function(G[<<curnode, neighbor>>], is_fragile)
             ncost == Plus(dist, cost)
             known == neighbor \in DOMAIN st.enqueued
             h == IF known THEN st.enqueued[neighbor][2]
                  ELSE _heuristic(neighbor, target)
         IN IF cost = NoneVal \/ (known /\ st.enqueued[neighbor][1] <= ncost)
            THEN AStarRelax(G, target, is_fragile, curnode, dist, Tail(nbrs), st)
            ELSE AStarRelax(G, target, is_fragile, curnode, dist, Tail(nbrs),
                   [queue |-> st.queue \cup
                                {<<Plus(ncost, h), st.c, neighbor, ncost, curnode>>},
                    enqueued |-> (neighbor :> <<ncost, h>>) @@ st.enqueued,
                    explored |-> st.explored,
                    c |-> st.c + 1])

(* networkx.astar_path: the main loop; <<>> stands for NetworkXNoPath *)
RECURSIVE AStarLoop(_, _, _, _)
AStarLoop(G, target, is_fragile, st) ==
    IF st.queue = {} THEN <<>>
    ELSE LET e == HeapMin(st.queue)
             curnode == e[3]
             dist == e[4]
             parent == e[5]
             rest == [st EXCEPT !.queue = st.queue \ {e}]
         IN IF curnode = target
            THEN AStarBack(st.explored, parent, <<curnode>>)
            ELSE IF curnode \in DOMAIN st.explored
                    /\ (st.explored[curnode] = NoneVal
                        \/ st.enqueued[curnode][1] < dist)
            THEN AStarLoop(G, target, is_fragile, rest)
            ELSE AStarLoop(G, target, is_fragile,
                   AStarRelax(G, target, is_fragile, curnode, dist,
                              Neighbors(G, curnode),
                              [rest EXCEPT !.explored =
                                  (curnode :> parent) @@ st.explored]))

(* What a call of networkx returns or raises *)
Returned(value) == [exc |-> "", value |-> value]
Raised(exc) == [exc |-> exc, value |-> NoneVal]

PathOrNoPath(path) ==
    IF path = <<>> THEN Raised("NetworkXNoPath") ELSE Returned(path)

(* nx.astar_path: NodeNotFound for a node that is not in G, NetworkXNoPath  *)
(* when the queue runs empty                                                *)
astar_path(G, source, target, is_fragile) ==
    IF source \notin Nodes \/ target \notin Nodes THEN Raised("NodeNotFound")
    ELSE PathOrNoPath(
           AStarLoop(G, target, is_fragile,
                     [queue |-> {<<0, 0, source, 0, NoneVal>>},
                      enqueued |-> <<>>, explored |-> <<>>, c |-> 1]))

(* try/except that lets everything but NetworkXNoPath through *)
Caught_NoPathOnly(r, default) ==
    [raised |-> r.exc \notin {"", "NetworkXNoPath"},
     value |-> IF r.exc = "" THEN r.value ELSE default]

(* The try/except of get_path (lines 76-88) and of get_path_cost (lines     *)
(* 119-131): NetworkXNoPath and every other Exception give the default      *)
Caught(r, default) ==
    [raised |-> FALSE, value |-> IF r.exc = "" THEN r.value ELSE default]

(* AStarNavigator.get_path *)
get_path(G, start_node, end_node, is_fragile) ==
    Caught(astar_path(G, start_node, end_node, is_fragile), <<>>).value

(* networkx._dijkstra_multisource: the loop over G[v].items() *)
RECURSIVE DijkstraRelax(_, _, _, _, _)
DijkstraRelax(G, is_fragile, v, nbrs, st) ==
    IF nbrs = <<>> THEN st
    ELSE LET u == Head(nbrs)
             cost == weight_function_cost(G[<<v, u>>], is_fragile)
             vu_dist == Plus(st.dist[v], cost)
         IN IF cost = NoneVal \/ u \in DOMAIN st.dist
               \/ (u \in DOMAIN st.seen /\ vu_dist >= st.seen[u])
            THEN DijkstraRelax(G, is_fragile, v, Tail(nbrs), st)
            ELSE DijkstraRelax(G, is_fragile, v, Tail(nbrs),
                   [fringe |-> st.fringe \cup {<<vu_dist, st.c, u>>},
                    seen |-> (u :> vu_dist) @@ st.seen,
                    dist |-> st.dist,
                    c |-> st.c + 1])

(* networkx._dijkstra_multisource: the main loop, returning dist *)
RECURSIVE DijkstraLoop(_, _, _, _)
DijkstraLoop(G, target, is_fragile, st) ==
    IF st.fringe = {} THEN st.dist
    ELSE LET e == HeapMin(st.fringe)
             v == e[3]
             rest == [st EXCEPT !.fringe = st.fringe \ {e}]
         IN IF v \in DOMAIN st.dist
            THEN DijkstraLoop(G, target, is_fragile, rest)
            ELSE LET fixed == [rest EXCEPT !.dist = (v :> e[1]) @@ st.dist]
                 IN IF v = target THEN fixed.dist
                    ELSE DijkstraLoop(G, target, is_fragile,
                           DijkstraRelax(G, is_fragile, v, Neighbors(G, v), fixed))

LengthOrNoPath(dist, target) ==
    IF target \in DOMAIN dist THEN Returned(dist[target])
    ELSE Raised("NetworkXNoPath")

(* nx.shortest_path_length with a weight function: NodeNotFound for a       *)
(* source that is not in G, 0 for source = target, else Dijkstra            *)
shortest_path_length(G, source, target, is_fragile) ==
    IF source \notin Nodes THEN Raised("NodeNotFound")
    ELSE IF source = target THEN Returned(0)
    ELSE LengthOrNoPath(
           DijkstraLoop(G, target, is_fragile,
                        [fringe |-> {<<0, 0, source>>},
                         seen |-> (source :> 0), dist |-> <<>>, c |-> 1]),
           target)

(* AStarNavigator.get_path_cost: float('inf') when networkx raises *)
get_path_cost(G, start_node, end_node, is_fragile) ==
    Caught(shortest_path_length(G, start_node, end_node, is_fragile), Inf).value


-----------------------------------------------------------------------------
(* The road networks the model is run on.  Orders go to nodes 1 and 2.  The *)
(* depot 0 has an edge to node 1 (absent, good or blocked) and to node 2    *)
(* (absent or good), nodes 1 and 2 an edge back to the depot (absent or     *)
(* good), node 1 an edge to node 2 (good, bad, or a bad edge with a         *)
(* parallel good one), and every further node k lies on a detour 0 -> k     *)
(* (absent or good) -> 1.                                                   *)
OrderNodes == {n \in Nodes : 1 <= n /\ n <= 2}

Slots == {<<depot_node, 1>>, <<depot_node, 2>>, <<1, depot_node>>,
          <<2, depot_node>>, <<1, 2>>}
         \cup {<<depot_node, k>> : k \in Nodes \ (OrderNodes \cup {depot_node})}
         \cup {<<k, 1>> : k \in Nodes \ (OrderNodes \cup {depot_node})}

SlotChoices(s) ==
    IF s = <<depot_node, 1>> THEN {<<>>, <<Good>>, <<Blocked>>}
    ELSE IF s = <<1, 2>> THEN {<<Good>>, <<Bad>>, <<Rough, Good>>}
    ELSE IF s[2] = 1 THEN {<<Good>>}
    ELSE {<<>>, <<Good>>}

AllChoices == UNION {SlotChoices(s) : s \in Slots}

MakeGraph(ch) == [p \in {s \in Slots : ch[s] # <<>>} |-> KeyDict(ch[p])]

Graphs == {MakeGraph(ch) : ch \in {c \in [Slots -> AllChoices] :
                                     \A s \in Slots : c[s] \in SlotChoices(s)}}

Idle == [phase |-> "idle"]
NoResult == [mode |-> "none"]
NoOrders == <<>>

(* Everything outside the path oracle stays as constructed *)
RestIdle ==
    /\ orders = NoOrders
    /\ use_ai_pathing = TRUE
    /\ pc = "idle"
    /\ seq_pos = 0
    /\ current_node = depot_node
    /\ cargo = <<>>
    /\ totals = [time |-> 0, dist |-> 0]
    /\ result = NoResult
    /\ trace = <<>>
    /\ individual = <<>>
    /\ fit = Idle
    /\ returned = NoneVal
    /\ app = Idle
    /\ ga = Idle

-----------------------------------------------------------------------------
(* Specification SpecOracle: one query of the path oracle on a network *)
InitOracle ==
    /\ graph \in Graphs
    /\ q = Idle
    /\ RestIdle

(* A node id that is not in the graph *)
AbsentNode == NumNodes

(* get_path and get_path_cost for the same arguments; raised tells whether  *)
(* one of them let an exception out                                         *)
Query(s, e, f) ==
    /\ q.phase = "idle"
    /\ q' = [phase |-> "answered", start |-> s, end |-> e, is_fragile |-> f,
             path |-> get_path(graph, s, e, f),
             cost |-> get_path_cost(graph, s, e, f),
             raised |-> \/ Caught(astar_path(graph, s, e, f), <<>>).raised
                        \/ Caught(shortest_path_length(graph, s, e, f),
                                  Inf).raised]
    /\ UNCHANGED <<graph, orders, use_ai_pathing, pc, seq_pos, current_node,
                   cargo, totals, result, trace, individual, fit, ga,
                   returned, app>>

NextOracle ==
    \E s \in Nodes \cup {AbsentNode}, e \in Nodes \cup {AbsentNode},
       f \in BOOLEAN : Query(s, e, f)

SpecOracle == InitOracle /\ [][NextOracle]_vars

(* The edge cost function of one parallel edge with attribute dictionary a, *)
(* and of the node pair (u, v): the cheapest of its parallel edges          *)
SetMin(S) == CHOOSE x \in S : \A y \in S : x <= y
EdgeCost(G, u, v, f) ==
    SetMin({weight_function(G[<<u, v>>][k], f) : k \in DOMAIN G[<<u, v>>]})

RECURSIVE PathSum(_, _, _)
PathSum(G, path, f) ==
    IF Len(path) <= 1 THEN 0
    ELSE Plus(EdgeCost(G, path[1], path[2], f), PathSum(G, Tail(path), f))

PairBlocked(G, u, v) ==
    \A k \in DOMAIN G[<<u, v>>] : G[<<u, v>>][k].road_block

(* C1: no path returned by get_path traverses a node pair all of whose     *)
(* edges have road_block = true.                                           *)
C1_NoBlockedEdgeOnPath ==
    q.phase = "answered" =>
        \A i \in 1 .. (Len(q.path) - 1) :
            ~PairBlocked(graph, q.path[i], q.path[i + 1])

(* C2: get_path_cost equals the sum of the edge cost function over the     *)
(* consecutive edges of the path get_path returns for the same arguments.  *)
C2_CostEqualsPathSum ==
    (q.phase = "answered" /\ q.path # <<>>) =>
        q.cost = PathSum(graph, q.path, q.is_fragile)


-----------------------------------------------------------------------------
(* Truck (src/src/models/truck.py); cargo is a list of indices into orders *)

RECURSIVE SumWeights(_, _)
SumWeights(os, c) ==
    IF c = <<>> THEN 0 ELSE os[Head(c)].weight + SumWeights(os, Tail(c))

current_load(os, c) == SumWeights(os, c)

(* can_load that forgets what is already aboard *)
can_load_NoLoad(os, c, weight) == weight <= Capacity

(* can_load with < for <= *)
can_load_Strict(os, c, weight) == (current_load(os, c) + weight) < Capacity

can_load(os, c, weight) == (current_load(os, c) + weight) <= Capacity

(* load_order that appends the order whatever can_load says *)
load_order_AlwaysAppends(os, c, o) ==
    [cargo |-> Append(c, o), ok |-> can_load(os, c, os[o].weight)]

(* load_order: the cargo afterwards and the value returned *)
load_order(os, c, o) ==
    IF can_load(os, c, os[o].weight)
    THEN [cargo |-> Append(c, o), ok |-> TRUE]
    ELSE [cargo |-> c, ok |-> FALSE]

unload_all == <<>>

(* get_fragile_cargo that looks at the last order loaded only *)
get_fragile_cargo_LastOnly(os, c) ==
    IF c # <<>> /\ os[c[Len(c)]].is_fragile THEN <<c[Len(c)]>> ELSE <<>>

get_fragile_cargo(os, c) == SelectSeq(c, LAMBDA o : os[o].is_fragile)

-----------------------------------------------------------------------------
(* Simulator (src/src/core/simulator.py) *)

(* nx.shortest_path(graph, start, end, weight='length'): a path of least    *)
(* total length, where a node pair counts with its shortest parallel edge.  *)
(* Which of several shortest paths is returned is left open.                *)
RECURSIVE SimplePaths(_, _, _, _)
SimplePaths(G, u, t, visited) ==
    IF u = t THEN {<<u>>}
    ELSE UNION {{<<u>> \o p : p \in SimplePaths(G, v, t, visited \cup {v})} :
                v \in Succ(G, u) \ visited}

PairLength(G, u, v) ==
    SetMin({DGet(G[<<u, v>>][k], "length", 1) : k \in DOMAIN G[<<u, v>>]})

RECURSIVE PathLength(_, _)
PathLength(G, path) ==
    IF Len(path) <= 1 THEN 0
    ELSE PairLength(G, path[1], path[2]) + PathLength(G, Tail(path))

ShortestByLength(G, start, end) ==
    LET ps == SimplePaths(G, start, end, {start})
    IN {p \in ps : \A o \in ps : PathLength(G, p) <= PathLength(G, o)}

(* _get_path: the paths the routing mode can return; {<<>>} when none *)
_get_path(G, start, end, use_ai, has_fragile) ==
    IF use_ai THEN {get_path(G, start, end, has_fragile)}
    ELSE IF ShortestByLength(G, start, end) = {} THEN {<<>>}
    ELSE ShortestByLength(G, start, end)

(* _traverse_path, one edge: seconds are kept as quarter seconds *)
EdgeTimeQs(data) ==
    LET length_m == DGet(data, "length", 100)
        speed_kmh == DGet(data, "maxspeed", 40)
        traffic_factor == 1 + DGet(data, "traffic_level", 0)
        pavement_quality == DGet(data, "pavement_quality", "good")
        speed10 == IF pavement_quality = "bad" THEN speed_kmh * 8 ELSE speed_kmh * 10
        block == IF DGet(data, "road_block", FALSE) THEN BlockPenaltyQs ELSE 0
    IN IF speed10 < MinSpeed * 10 * traffic_factor
       THEN block + (length_m * 144) \div (MinSpeed * 10)
       ELSE block + (length_m * 144 * traffic_factor) \div speed10

(* Damage at half the rate: one point per 200 length units *)
Damage_HalfRate(os, c, data) ==
    IF DGet(data, "pavement_quality", "good") = "bad"
    THEN [o \in DOMAIN os |->
            IF \E i \in DOMAIN get_fragile_cargo(os, c) :
                   get_fragile_cargo(os, c)[i] = o
            THEN [os[o] EXCEPT !.current_integrity =
                     Max(@ - DGet(data, "length", 100) \div 200, 0)]
            ELSE os[o]]
    ELSE os

(* Damage without the floor at 0 *)
Damage_NoFloor(os, c, data) ==
    IF DGet(data, "pavement_quality", "good") = "bad"
    THEN [o \in DOMAIN os |->
            IF \E i \in DOMAIN get_fragile_cargo(os, c) :
                   get_fragile_cargo(os, c)[i] = o
            THEN [os[o] EXCEPT !.current_integrity =
                     @ - DGet(data, "length", 100) \div 100]
            ELSE os[o]]
    ELSE os

(* Damage to every fragile order, aboard or not *)
Damage_AllFragile(os, c, data) ==
    IF DGet(data, "pavement_quality", "good") = "bad"
    THEN [o \in DOMAIN os |->
            IF os[o].is_fragile
            THEN [os[o] EXCEPT !.current_integrity =
                     Max(@ - DGet(data, "length", 100) \div 100, 0)]
            ELSE os[o]]
    ELSE os

(* _traverse_path, one edge: the damage to the fragile orders aboard.  The  *)
(* edge lengths of the model are multiples of 100, so length / 100.0 is the *)
(* integer quotient.                                                        *)
Damage(os, c, data) ==
    IF DGet(data, "pavement_quality", "good") = "bad"
    THEN LET damage_ticks == DGet(data, "length", 100) \div 100
         IN [o \in DOMAIN os |->
               IF \E i \in DOMAIN get_fragile_cargo(os, c) :
                      get_fragile_cargo(os, c)[i] = o
               THEN [os[o] EXCEPT !.current_integrity =
                        Max(os[o].current_integrity - damage_ticks, 0)]
               ELSE os[o]]
    ELSE os

(* _traverse_path: (time, distance) and the orders after the damage *)
RECURSIVE _traverse_path(_, _, _, _)
_traverse_path(G, path, os, c) ==
    IF Len(path) <= 1 THEN [time |-> 0, dist |-> 0, orders |-> os]
    ELSE IF <<path[1], path[2]>> \notin DOMAIN G
    THEN _traverse_path(G, Tail(path), os, c)
    ELSE LET data == G[<<path[1], path[2]>>]["0"]
             rest == _traverse_path(G, Tail(path), Damage(os, c, data), c)
         IN [time |-> EdgeTimeQs(data) + rest.time,
             dist |-> DGet(data, "length", 100) + rest.dist,
             orders |-> rest.orders]


(* The orders the model is run on *)
Frag20 == [weight |-> 20, is_fragile |-> TRUE, fuzzy_priority |-> 5]
Plain15 == [weight |-> 15, is_fragile |-> FALSE, fuzzy_priority |-> 10]
Plain10 == [weight |-> 10, is_fragile |-> FALSE, fuzzy_priority |-> 5]
Heavy35 == [weight |-> 35, is_fragile |-> FALSE, fuzzy_priority |-> 5]
OrderKinds == {Frag20, Plain15, Plain10, Heavy35}

(* Order(...) as Simulator.run resets it *)
NewOrder(kind, node) ==
    [node_id |-> node, weight |-> kind.weight, is_fragile |-> kind.is_fragile,
     fuzzy_priority |-> kind.fuzzy_priority,
     current_integrity |-> 100, delivered |-> FALSE]

Orders == {NewOrder(k, n) : k \in OrderKinds, n \in OrderNodes}
OrderLists == UNION {[1 .. n -> Orders] : n \in 0 .. MaxOrders}

-----------------------------------------------------------------------------
(* Specification SpecExec: _execute_delivery_route on sequence_orders =     *)
(* orders, from its entry (totals zero, truck unloaded, at the depot).      *)
InitExec ==
    /\ graph \in Graphs
    /\ orders \in OrderLists
    /\ use_ai_pathing \in BOOLEAN
    /\ q = Idle
    /\ pc = "loop"
    /\ seq_pos = 1
    /\ current_node = depot_node
    /\ cargo = unload_all
    /\ totals = [time |-> 0, dist |-> 0]
    /\ result = NoResult
    /\ trace = <<>>
    /\ individual = <<>>
    /\ fit = Idle
    /\ returned = NoneVal
    /\ app = Idle
    /\ ga = Idle

has_fragile == Len(get_fragile_cargo(orders, cargo)) > 0

Leg(kind, to, path, loaded) ==
    [kind |-> kind, pos |-> seq_pos, from |-> current_node, to |-> to,
     is_fragile |-> has_fragile, path |-> path, loaded |-> loaded]

(* line 194: the order fits, no depot return *)
CapacityOk ==
    /\ pc = "loop"
    /\ seq_pos <= Len(orders)
    /\ can_load(orders, cargo, orders[seq_pos].weight)
    /\ pc' = "travel"
    /\ UNCHANGED <<graph, orders, q, use_ai_pathing, seq_pos, current_node,
                   cargo, totals, result, trace, individual, fit, ga,
                   returned, app>>

(* lines 194-203: the order does not fit, return to the depot and unload *)
ForcedReturn ==
    /\ pc = "loop"
    /\ seq_pos <= Len(orders)
    /\ ~can_load(orders, cargo, orders[seq_pos].weight)
    /\ \E path \in _get_path(graph, current_node, depot_node,
                             use_ai_pathing, has_fragile) :
          LET td == _traverse_path(graph, path, orders, cargo)
          IN /\ totals' = [time |-> totals.time + td.time,
                           dist |-> totals.dist + td.dist]
             /\ orders' = td.orders
             /\ trace' = Append(trace, Leg("forced", depot_node, path, FALSE))
    /\ current_node' = depot_node
    /\ cargo' = unload_all
    /\ pc' = "travel"
    /\ UNCHANGED <<graph, q, use_ai_pathing, seq_pos, result, individual, fit, ga,
                   returned, app>>

(* an unreachable order that ends the loop (break for continue) *)
SkipUnreachable_Break ==
    /\ pc = "travel"
    /\ <<>> \in _get_path(graph, current_node, orders[seq_pos].node_id,
                          use_ai_pathing, has_fragile)
    /\ trace' = Append(trace, Leg("order", orders[seq_pos].node_id, <<>>, FALSE))
    /\ seq_pos' = Len(orders) + 1
    /\ pc' = "loop"
    /\ UNCHANGED <<graph, orders, q, use_ai_pathing, current_node, cargo,
                   totals, result, individual, fit, ga, returned, app>>

(* lines 206-211: no path to the order, skip it *)
SkipUnreachable ==
    /\ pc = "travel"
    /\ <<>> \in _get_path(graph, current_node, orders[seq_pos].node_id,
                          use_ai_pathing, has_fragile)
    /\ trace' = Append(trace, Leg("order", orders[seq_pos].node_id, <<>>, FALSE))
    /\ seq_pos' = seq_pos + 1
    /\ pc' = "loop"
    /\ UNCHANGED <<graph, orders, q, use_ai_pathing, current_node, cargo,
                   totals, result, individual, fit, ga, returned, app>>

(* lines 206-221: travel to the order, load it, mark it delivered *)
Deliver ==
    /\ pc = "travel"
    /\ \E path \in _get_path(graph, current_node, orders[seq_pos].node_id,
                             use_ai_pathing, has_fragile) :
          /\ path # <<>>
          /\ LET td == _traverse_path(graph, path, orders, cargo)
                 ld == load_order(td.orders, cargo, seq_pos)
             IN /\ totals' = [time |-> totals.time + td.time,
                              dist |-> totals.dist + td.dist]
                /\ cargo' = ld.cargo
                /\ orders' = [td.orders EXCEPT ![seq_pos].delivered = TRUE]
                /\ trace' = Append(trace,
                               Leg("order", orders[seq_pos].node_id, path, ld.ok))
    /\ current_node' = orders[seq_pos].node_id
    /\ seq_pos' = seq_pos + 1
    /\ pc' = "loop"
    /\ UNCHANGED <<graph, q, use_ai_pathing, result, individual, fit, ga,
                   returned, app>>

(* A sum over all the orders, delivered or not *)
RECURSIVE SumIntegrity_All(_, _)
SumIntegrity_All(os, i) ==
    IF i > Len(os) THEN 0
    ELSE os[i].current_integrity + SumIntegrity_All(os, i + 1)

(* lines 230-233 *)
RECURSIVE SumIntegrity(_, _)
SumIntegrity(os, i) ==
    IF i > Len(os) THEN 0
    ELSE (IF os[i].delivered THEN os[i].current_integrity ELSE 0)
         + SumIntegrity(os, i + 1)

(* lines 223-251: the return to the depot after the loop, and the report *)
FinalReturn ==
    /\ pc = "loop"
    /\ seq_pos > Len(orders)
    /\ \E path \in _get_path(graph, current_node, depot_node,
                             use_ai_pathing, has_fragile) :
          LET td == _traverse_path(graph, path, orders, cargo)
              delivered_orders == {i \in DOMAIN td.orders : td.orders[i].delivered}
          IN /\ totals' = [time |-> totals.time + td.time,
                           dist |-> totals.dist + td.dist]
             /\ orders' = td.orders
             /\ trace' = Append(trace, Leg("final", depot_node, path, FALSE))
             /\ result' =
                  [mode |-> IF use_ai_pathing THEN "Smart" ELSE "Legacy",
                   time_total |-> totals.time + td.time,
                   distance_km |-> totals.dist + td.dist,
                   avg_integrity |->
                       IF delivered_orders # {}
                       THEN [num |-> SumIntegrity(td.orders, 1),
                             den |-> Cardinality(delivered_orders)]
                       ELSE [num |-> 100, den |-> 1],
                   orders_delivered |-> Cardinality(delivered_orders)]
    /\ pc' = "done"
    /\ UNCHANGED <<graph, q, use_ai_pathing, seq_pos, current_node, cargo,
                   individual, fit, ga, returned, app>>

NextExec == CapacityOk \/ ForcedReturn \/ SkipUnreachable \/ Deliver \/ FinalReturn

SpecExec == InitExec /\ [][NextExec]_vars

-----------------------------------------------------------------------------
(* Properties of the executor *)

Range(f) == {f[i] : i \in DOMAIN f}

(* The orders load_order accepted before leg j and no depot unload since *)
LoadedBefore(tr, j) ==
    {tr[k].pos : k \in {k \in 1 .. (j - 1) :
                          /\ tr[k].kind = "order"
                          /\ tr[k].loaded
                          /\ \A m \in (k + 1) .. (j - 1) : tr[m].kind # "forced"}}

FragileAboardBefore(tr, j) == {o \in LoadedBefore(tr, j) : orders[o].is_fragile}

(* Metres of bad pavement on the edges the executor drives along a path *)
RECURSIVE BadMetres(_, _)
BadMetres(G, path) ==
    IF Len(path) <= 1 THEN 0
    ELSE (IF G[<<path[1], path[2]>>]["0"].pavement_quality = "bad"
          THEN G[<<path[1], path[2]>>]["0"].length ELSE 0)
         + BadMetres(G, Tail(path))

(* C3: at every point of _execute_delivery_route the weights of the orders *)
(* in the truck's cargo sum to at most the capacity.                       *)
C3_LoadWithinCapacity == current_load(orders, cargo) <= Capacity

C3_Witness ==
    /\ Len(cargo) = 2
    /\ current_load(orders, cargo) = Capacity
    /\ \E j \in DOMAIN trace : trace[j].kind = "order" /\ trace[j].loaded

(* C5: in smart mode, while a fragile order is aboard (loaded and not yet  *)
(* unloaded at the depot) every leg asks for its path with is_fragile =    *)
(* true, and the bad pavement driven on the leg is taken off the integrity *)
(* of every fragile order aboard (down to 0 at most).                      *)
C5_Contamination ==
    [][(use_ai_pathing /\ Len(trace') = Len(trace) + 1) =>
         LET j == Len(trace')
             leg == trace'[j]
             aboard == FragileAboardBefore(trace', j)
         IN aboard # {} =>
              /\ leg.is_fragile
              /\ \A o \in aboard :
                   orders'[o].current_integrity =
                     Max(orders[o].current_integrity
                         - BadMetres(graph, leg.path) \div 100, 0)]_vars

C5_Witness ==
    /\ use_ai_pathing
    /\ \E j \in DOMAIN trace :
         /\ trace[j].kind = "order"
         /\ ~orders[trace[j].pos].is_fragile
         /\ trace[j].is_fragile
         /\ BadMetres(graph, trace[j].path) > 0
         /\ \E o \in FragileAboardBefore(trace, j) :
               orders[o].current_integrity < 100

(* Every way from u to v crosses a node pair whose edges are all blocked *)
OnlyViaBlocked(G, u, v) ==
    /\ u # v
    /\ SimplePaths(G, u, v, {u}) # {}
    /\ \A p \in SimplePaths(G, u, v, {u}) :
         \E i \in 1 .. (Len(p) - 1) : PairBlocked(G, p[i], p[i + 1])

(* C7: when a blocked edge is the only connection between the vehicle and  *)
(* an order's node, smart-mode execution gets an empty path and leaves the *)
(* order undelivered.                                                      *)
C7_BlockedOnlyConnectionSkipped ==
    \A j \in DOMAIN trace :
        (use_ai_pathing /\ trace[j].kind = "order"
         /\ OnlyViaBlocked(graph, trace[j].from, trace[j].to))
        => (trace[j].path = <<>> /\ ~orders[trace[j].pos].delivered)

(* C8: whenever an order's node is reached load_order accepts the order,   *)
(* so an order is in the cargo at the moment it is marked delivered.       *)
C8_ReachedOrderIsLoaded ==
    \A j \in DOMAIN trace :
        (trace[j].kind = "order" /\ trace[j].path # <<>>) => trace[j].loaded

(* The positions before which a depot return is due: the running load plus *)
(* the order's weight exceeds the capacity.                                *)
RECURSIVE ExpectedReturns(_, _, _)
ExpectedReturns(os, i, load) ==
    IF i > Len(os) THEN {}
    ELSE IF load + os[i].weight > Capacity
    THEN {i} \cup ExpectedReturns(os, i + 1,
                    IF os[i].weight <= Capacity THEN os[i].weight ELSE 0)
    ELSE ExpectedReturns(os, i + 1, load + os[i].weight)

AllLegsReachable == \A j \in DOMAIN trace : trace[j].path # <<>>

ForcedLegs == {j \in DOMAIN trace : trace[j].kind = "forced"}

C10_UnreachableOrderSkipped ==
    /\ \A j \in DOMAIN trace :
          (trace[j].kind = "order" /\ trace[j].path = <<>>) =>
              /\ ~orders[trace[j].pos].delivered
              /\ trace[j].pos \notin Range(cargo)
    /\ pc = "done" =>
          /\ \A i \in DOMAIN orders :
                \E j \in DOMAIN trace : trace[j].kind = "order" /\ trace[j].pos = i
          /\ trace[Len(trace)].kind = "final"
          /\ result # NoResult

C10_Witness ==
    /\ pc = "done"
    /\ result # NoResult
    /\ \E j, k \in DOMAIN trace :
          /\ j < k
          /\ trace[j].kind = "order" /\ trace[j].path = <<>>
          /\ trace[k].kind = "order" /\ trace[k].path # <<>>
          /\ orders[trace[k].pos].delivered



-----------------------------------------------------------------------------
(* GeneticTSP (src/src/ai/genetic.py).  An individual is a list of 0-based  *)
(* indices into orders; orders itself is 1-based here.                      *)

OrderAt(os, order_index) == os[order_index + 1]

(* The is_fragile argument _calculate_fitness gives get_path_cost for the   *)
(* leg to an order (line 73)                                                *)
is_fragile_trip(order) == order.is_fragile

(* _calculate_fitness, lines 61-70: the return to the depot, its cost given *)
FitnessDepotReturn(st, position, cost_to_depot) ==
    [st EXCEPT
       !.total_score = Plus(st.total_score, cost_to_depot),
       !.current_time = Plus(st.current_time, cost_to_depot),
       !.legs = Append(st.legs,
                  [kind |-> "forced", pos |-> position,
                   from |-> st.current_node, to |-> depot_node,
                   is_fragile |-> FALSE, load |-> 0]),
       !.current_node = depot_node,
       !.current_load = 0]

(* lines 85-86: time_penalty = current_time * (priority_weight / 5.0);     *)
(* inf * 0.0 is nan                                                         *)
TimePenalty(current_time, order) ==
    IF current_time = Inf
    THEN (IF order.fuzzy_priority = 0 THEN NaN ELSE Inf)
    ELSE (current_time * order.fuzzy_priority) \div 5

(* lines 92-96: position_ratio * 50.0 for a fragile order, else nothing *)
FragilePenalty(order, position, total_orders) ==
    IF order.is_fragile
    THEN (50 * Unit) - (50 * Unit * position) \div Max(total_orders - 1, 1)
    ELSE 0

(* lines 72-100: the leg to the order, its cost given *)
FitnessVisit(st, ind, position, order, travel_cost) ==
    [total_score |->
         Plus(Plus(st.total_score, travel_cost),
              TimePenalty(Plus(st.current_time, travel_cost), order)),
     current_node |-> order.node_id,
     current_load |-> st.current_load + order.weight,
     current_time |-> Plus(st.current_time, travel_cost),
     fragile_position_penalty |->
         st.fragile_position_penalty + FragilePenalty(order, position, Len(ind)),
     legs |-> Append(st.legs,
                [kind |-> "order", pos |-> position,
                 from |-> st.current_node, to |-> order.node_id,
                 is_fragile |-> is_fragile_trip(order),
                 load |-> st.current_load + order.weight])]

(* A return to the depot as soon as the load reaches the capacity *)
FitnessAtDepotIfOver_AtCapacity(G, st, position, order) ==
    IF st.current_load + order.weight >= Capacity
    THEN FitnessDepotReturn(st, position,
             get_path_cost(G, st.current_node, depot_node, FALSE))
    ELSE st

(* lines 60-76: one order of the sequence.  st carries total_score,         *)
(* current_node, current_load, current_time, fragile_position_penalty and   *)
(* the list of the legs costed so far; a leg records the load after it.     *)
FitnessAtDepotIfOver(G, st, position, order) ==
    IF st.current_load + order.weight > Capacity
    THEN FitnessDepotReturn(st, position,
             get_path_cost(G, st.current_node, depot_node, FALSE))
    ELSE st

FitnessTravel(G, st, ind, position, order) ==
    FitnessVisit(st, ind, position, order,
        get_path_cost(G, st.current_node, order.node_id, is_fragile_trip(order)))

(* _calculate_fitness, the loop of lines 57-100 from position onwards *)
RECURSIVE FitnessLoop(_, _, _, _, _)
FitnessLoop(G, os, ind, position, st) ==
    IF position >= Len(ind) THEN st
    ELSE FitnessLoop(G, os, ind, position + 1,
           FitnessTravel(G,
               FitnessAtDepotIfOver(G, st, position,
                                    OrderAt(os, ind[position + 1])),
               ind, position, OrderAt(os, ind[position + 1])))

(* lines 102-109: the return to the depot at the end, its cost given *)
FitnessFinal(st, ind, final_cost) ==
    [total_score |-> Plus(Plus(st.total_score, final_cost),
                          st.fragile_position_penalty),
     legs |-> Append(st.legs,
                [kind |-> "final", pos |-> Len(ind), from |-> st.current_node,
                 to |-> depot_node, is_fragile |-> FALSE,
                 load |-> st.current_load])]

FitnessEnd(G, st, ind) ==
    FitnessFinal(st, ind, get_path_cost(G, st.current_node, depot_node, FALSE))

(* _calculate_fitness: total_score before the division of line 112 (the     *)
(* fitness is 1 / (total_score + 1e-6)), and the legs it costed             *)
_calculate_fitness(G, os, ind) ==
    FitnessEnd(G,
        FitnessLoop(G, os, ind, 0,
            [total_score |-> 0, current_node |-> depot_node,
             current_load |-> 0, current_time |-> 0,
             fragile_position_penalty |-> 0, legs |-> <<>>]),
        ind)

(* random.sample(indices, len(indices)): the permutations of 0 .. n-1 *)
Perms(n) == {p \in [1 .. n -> 0 .. (n - 1)] :
               \A i, j \in 1 .. n : i # j => p[i] # p[j]}

-----------------------------------------------------------------------------
(* Specification SpecFitness: one evaluation of _calculate_fitness *)
InitFitness ==
    /\ graph \in Graphs
    /\ orders \in OrderLists
    /\ q = Idle
    /\ use_ai_pathing = TRUE
    /\ pc = "idle"
    /\ seq_pos = 0
    /\ current_node = depot_node
    /\ cargo = <<>>
    /\ totals = [time |-> 0, dist |-> 0]
    /\ result = NoResult
    /\ trace = <<>>
    /\ individual = <<>>
    /\ fit = Idle
    /\ returned = NoneVal
    /\ app = Idle
    /\ ga = Idle

CalcFitness(ind) ==
    /\ fit.phase = "idle"
    /\ Len(orders) >= 1
    /\ individual' = ind
    /\ fit' = [phase |-> "done"] @@ _calculate_fitness(graph, orders, ind)
    /\ UNCHANGED <<graph, orders, q, use_ai_pathing, pc, seq_pos, current_node,
                   cargo, totals, result, trace, ga, returned, app>>

NextFitness == \E ind \in Perms(Len(orders)) : CalcFitness(ind)

SpecFitness == InitFitness /\ [][NextFitness]_vars


(* C6: _calculate_fitness costs the leg to an order with is_fragile = true *)
(* exactly when the order is fragile or a fragile order has been loaded    *)
(* since the last depot visit.                                             *)
C6_FitnessLegFragility ==
    fit.phase = "done" =>
        \A j \in DOMAIN fit.legs :
            fit.legs[j].kind = "order" =>
                (fit.legs[j].is_fragile <=>
                    \/ OrderAt(orders, individual[fit.legs[j].pos + 1]).is_fragile
                    \/ \E k \in 1 .. (j - 1) :
                          /\ fit.legs[k].kind = "order"
                          /\ OrderAt(orders, individual[fit.legs[k].pos + 1]).is_fragile
                          /\ \A m \in (k + 1) .. (j - 1) :
                                fit.legs[m].kind # "forced")

-----------------------------------------------------------------------------
(* GeneticTSP.solve.  A fitness is kept as the total_score it is the        *)
(* inverse of: a higher fitness is a lower total_score.  max_fitness = -1.0 *)
(* is NoneVal.                                                              *)

(* a > b on fitnesses; every comparison with nan is false *)
FitnessGt(a, b) == a # NaN /\ b # NaN /\ a < b

(* line 134: score > max_fitness *)
FitnessGreater(score, other) ==
    score # NaN /\ (other = NoneVal \/ score < other)

(* What _crossover gives when child[ptr] at line 179 raises IndexError *)
IndexError == <<>>

(* line 179-180: while child[ptr] is not None: ptr += 1.  The value is the  *)
(* 1-based position the loop stops at, Len(child) + 1 when the pointer runs *)
(* past the end of the child                                                *)
RECURSIVE Advance(_, _)
Advance(child, ptr) ==
    IF ptr > Len(child) THEN ptr
    ELSE IF child[ptr] # NoneVal THEN Advance(child, ptr + 1)
    ELSE ptr

(* the fill loop without the test of line 178: every gene of p2 is placed *)
RECURSIVE CrossoverFill_NoSegmentTest(_, _, _, _, _, _)
CrossoverFill_NoSegmentTest(child, p2, g, ptr, start, end) ==
    IF g > Len(p2) THEN child
    ELSE IF Advance(child, ptr) > Len(child) THEN IndexError
    ELSE CrossoverFill_NoSegmentTest(
             [child EXCEPT ![Advance(child, ptr)] = p2[g]], p2, g + 1,
             Advance(child, ptr), start, end)

(* _crossover, lines 176-181: the genes of p2 from index g on *)
RECURSIVE CrossoverFill(_, _, _, _, _, _)
CrossoverFill(child, p2, g, ptr, start, end) ==
    IF g > Len(p2) THEN child
    ELSE IF \E i \in (start + 1) .. end : child[i] = p2[g]
    THEN CrossoverFill(child, p2, g + 1, ptr, start, end)
    ELSE IF Advance(child, ptr) > Len(child) THEN IndexError
    ELSE CrossoverFill([child EXCEPT ![Advance(child, ptr)] = p2[g]], p2, g + 1,
                       Advance(child, ptr), start, end)

(* _crossover with start, end = sorted(random.sample(range(len(p1)), 2)) *)
_crossover(p1, p2, start, end) ==
    CrossoverFill([i \in 1 .. start |-> NoneVal]
                    \o SubSeq(p1, start + 1, end)
                    \o [i \in 1 .. (Len(p1) - end) |-> NoneVal],
                  p2, 1, 1, start, end)

(* _mutate when random.random() < 0.1, with i, j the two sampled positions *)
Swap(indiv, i, j) ==
    [indiv EXCEPT ![i + 1] = indiv[j + 1], ![j + 1] = indiv[i + 1]]

(* _tournament: the individuals some sample of k indices can select *)
Samples(n, k) == {sel \in [1 .. k -> 1 .. n] :
                    \A a, b \in 1 .. k : a # b => sel[a] # sel[b]}

RECURSIVE TournamentBest(_, _, _, _)
TournamentBest(scores, sel, i, best_ix) ==
    IF i > Len(sel) THEN best_ix
    ELSE TournamentBest(scores, sel, i + 1,
           IF FitnessGt(scores[sel[i]], scores[best_ix])
           THEN sel[i] ELSE best_ix)

_tournament(pop, scores) ==
    {pop[TournamentBest(scores, sel, 2, sel[1])] :
        sel \in Samples(Len(pop), TournamentK)}

(* lines 133-136: the best individual seen so far *)
RECURSIVE TrackBest(_, _, _, _)
TrackBest(pop, scores, i, best) ==
    IF i > Len(pop) THEN best
    ELSE TrackBest(pop, scores, i + 1,
           IF FitnessGreater(scores[i], best.max_fitness)
           THEN [max_fitness |-> scores[i], best_route |-> pop[i]]
           ELSE best)

(* line 147: sorted(zip(fitness_scores, population), reverse=True), which   *)
(* keeps the population order among scores none of which is greater (equal  *)
(* scores, or scores that are all nan)                                      *)
RECURSIVE SortedPop(_, _, _)
SortedPop(pop, scores, left) ==
    IF left = {} THEN <<>>
    ELSE LET m == CHOOSE i \in left : \A o \in left :
                     \/ FitnessGt(scores[i], scores[o])
                     \/ (~FitnessGt(scores[o], scores[i]) /\ i <= o)
         IN <<pop[m]>> \o SortedPop(pop, scores, left \ {m})

(* The networks the optimizer is run on: every edge good, the edge from    *)
(* the depot to node 1 present or absent.                                  *)
GAGraphs == {g \in Graphs :
               /\ DOMAIN g \cup {<<depot_node, 1>>} = Slots
               /\ \A s \in DOMAIN g : g[s] = KeyDict(<<Good>>)}

(* Its orders: the first n of a fixed list, with the priorities the fuzzy  *)
(* analysis gave them or, not analysed, with the fuzzy_priority = 0.0 of   *)
(* Order.                                                                  *)
GAOrder(i, analysed) ==
    [NewOrder(IF i % 3 = 1 THEN Frag20
              ELSE IF i % 3 = 2 THEN Plain15 ELSE Plain10,
              IF i % 2 = 1 THEN 1 ELSE 2)
       EXCEPT !.fuzzy_priority = IF analysed THEN @ ELSE 0]

GAOrderLists(analysed) ==
    {[i \in 1 .. n |-> GAOrder(i, analysed)] : n \in 0 .. MaxOrders}

(* The calls of GeneticTSP(...).solve() the model makes: analysed orders   *)
(* on the full network with and without a progress callback, and orders    *)
(* that were not analysed on the network without the edge to node 1.       *)
GACalls ==
    {[graph |-> g, analysed |-> TRUE, progress_callback |-> cb] :
        g \in {h \in GAGraphs : <<depot_node, 1>> \in DOMAIN h},
        cb \in BOOLEAN}
    \cup {[graph |-> g, analysed |-> FALSE, progress_callback |-> TRUE] :
             g \in {h \in GAGraphs : <<depot_node, 1>> \notin DOMAIN h}}

NoneRoute == <<NoneVal>>

-----------------------------------------------------------------------------
(* Specification SpecGA: GeneticTSP.solve *)
InitGA ==
    /\ \E call \in GACalls :
          /\ graph = call.graph
          /\ orders \in GAOrderLists(call.analysed)
          /\ ga = [phase |-> "idle", progress_callback |-> call.progress_callback]
    /\ q = Idle
    /\ use_ai_pathing = TRUE
    /\ pc = "idle"
    /\ seq_pos = 0
    /\ current_node = depot_node
    /\ cargo = <<>>
    /\ totals = [time |-> 0, dist |-> 0]
    /\ result = NoResult
    /\ trace = <<>>
    /\ individual = <<>>
    /\ fit = Idle
    /\ returned = NoneVal
    /\ app = Idle

GAUnchanged == UNCHANGED <<graph, orders, q, use_ai_pathing, pc, seq_pos,
                           current_node, cargo, totals, result, trace,
                           individual, fit, returned, app>>

(* solve without the test of lines 120-121: the empty order list enters    *)
(* the generation loop with a population of empty individuals              *)
SolveEmpty_NoGuard ==
    /\ ga.phase = "idle"
    /\ orders = <<>>
    /\ ga' = [phase |-> "evaluate", population |-> [i \in 1 .. PopSize |-> <<>>],
              generation |-> 0, best_route |-> NoneRoute,
              max_fitness |-> NoneVal, fitness_scores |-> <<>>,
              next_pop |-> <<>>, callbacks |-> <<>>, queries |-> 0,
              result |-> NoneRoute] @@ ga
    /\ GAUnchanged

(* lines 120-121: callbacks is the list of the progress callbacks made and *)
(* queries the number of get_path_cost calls made                          *)
SolveEmpty ==
    /\ ga.phase = "idle"
    /\ orders = <<>>
    /\ ga' = [phase |-> "returned", result |-> <<>>, callbacks |-> <<>>,
              queries |-> 0] @@ ga
    /\ GAUnchanged

(* lines 123-127 *)
SolveStart ==
    /\ ga.phase = "idle"
    /\ orders # <<>>
    /\ \E pop \in [1 .. PopSize -> Perms(Len(orders))] :
          ga' = [phase |-> "evaluate", population |-> pop, generation |-> 0,
                 best_route |-> NoneRoute, max_fitness |-> NoneVal,
                 fitness_scores |-> <<>>, next_pop |-> <<>>,
                 callbacks |-> <<>>, queries |-> 0,
                 result |-> NoneRoute] @@ ga
    /\ GAUnchanged

(* line 130: fitness_scores *)
FitnessScores(G, os, pop) ==
    [i \in 1 .. Len(pop) |-> _calculate_fitness(G, os, pop[i]).total_score]

(* Evaluated with generation for generation + 1 in the callback *)
Evaluated_ZeroBased(g, scores, best) ==
    [g EXCEPT
       !.phase = "breed",
       !.fitness_scores = scores,
       !.max_fitness = best.max_fitness,
       !.best_route = best.best_route,
       !.callbacks = IF g.progress_callback
                     THEN Append(g.callbacks, <<g.generation, Generations>>)
                     ELSE g.callbacks,
       !.next_pop = SubSeq(SortedPop(g.population, scores, DOMAIN g.population),
                           1, Min(2, Len(g.population)))]

(* lines 133-148 with the scores and the best so far given *)
Evaluated(g, scores, best) ==
    [g EXCEPT
       !.phase = "breed",
       !.fitness_scores = scores,
       !.max_fitness = best.max_fitness,
       !.best_route = best.best_route,
       !.callbacks = IF g.progress_callback
                     THEN Append(g.callbacks, <<g.generation + 1, Generations>>)
                     ELSE g.callbacks,
       !.next_pop = SubSeq(SortedPop(g.population, scores, DOMAIN g.population),
                           1, Min(2, Len(g.population)))]

EvaluatedWith(g, scores) ==
    Evaluated(g, scores,
              TrackBest(g.population, scores, 1,
                        [max_fitness |-> g.max_fitness,
                         best_route |-> g.best_route]))

(* line 130: what _calculate_fitness gives for each individual *)
Fitnesses(G, os, pop) ==
    [i \in 1 .. Len(pop) |-> _calculate_fitness(G, os, pop[i])]

(* the get_path_cost calls made for the individuals from i on *)
RECURSIVE OracleQueries(_, _)
OracleQueries(fits, i) ==
    IF i > Len(fits) THEN 0
    ELSE Len(fits[i].legs) + OracleQueries(fits, i + 1)

EvaluatedFrom(g, fits) ==
    [EvaluatedWith(g, [i \in DOMAIN fits |-> fits[i].total_score])
       EXCEPT !.queries = @ + OracleQueries(fits, 1)]

(* lines 130-148: fitness, best so far, progress callback, elitism *)
Evaluate ==
    /\ ga.phase = "evaluate"
    /\ ga' = EvaluatedFrom(ga, Fitnesses(graph, orders, ga.population))
    /\ GAUnchanged

(* lines 172: the sorted pairs random.sample(range(n), 2) can give *)
Cuts(n) == {c \in (0 .. (n - 1)) \X (0 .. (n - 1)) : c[1] < c[2]}

(* lines 151-153: what _crossover can make of two tournament winners *)
Crossovers(winners, n) ==
    {_crossover(x[1][1], x[1][2], x[2][1], x[2][2]) :
       x \in (winners \X winners) \X Cuts(n)}

(* line 154: _mutate swaps the positions m[1] # m[2], or does nothing *)
Mutate(child, m) ==
    IF child = IndexError \/ m[1] = m[2] THEN child ELSE Swap(child, m[1], m[2])

(* lines 151-154: the children two tournament winners can have *)
Children(winners, n) ==
    {Mutate(x[1], x[2]) :
       x \in Crossovers(winners, n) \X ((0 .. (n - 1)) \X (0 .. (n - 1)))}

(* lines 150-159: the while loop that fills next_pop with children, then   *)
(* the next generation or the return of best_route                         *)
Breed ==
    /\ ga.phase = "breed"
    /\ Len(orders) >= 2 \/ Len(ga.next_pop) >= PopSize
    /\ \E kids \in [1 .. (PopSize - Len(ga.next_pop)) ->
                       Children(_tournament(ga.population, ga.fitness_scores),
                                Len(orders))] :
          ga' = [ga EXCEPT
                   !.next_pop = ga.next_pop \o kids,
                   !.population = ga.next_pop \o kids,
                   !.generation = ga.generation + 1,
                   !.phase = IF \E k \in DOMAIN kids : kids[k] = IndexError
                             THEN "raised"
                             ELSE IF ga.generation + 1 >= Generations
                             THEN "returned" ELSE "evaluate",
                   !.result = IF ga.generation + 1 >= Generations
                              THEN ga.best_route ELSE ga.result]
    /\ GAUnchanged

(* line 172 with a single order: random.sample(range(1), 2) raises          *)
(* ValueError, which nothing in solve catches                               *)
BreedRaises ==
    /\ ga.phase = "breed"
    /\ Len(ga.next_pop) < PopSize
    /\ Len(orders) < 2
    /\ ga' = [ga EXCEPT !.phase = "raised"]
    /\ GAUnchanged

NextGA == SolveEmpty \/ SolveStart \/ Evaluate \/ Breed \/ BreedRaises

SpecGA == InitGA /\ [][NextGA]_vars

(* C4: solve on exactly one order returns [0] without raising. *)
C4_SingleOrderReturnsZero ==
    (Len(orders) = 1 /\ ga.phase \in {"returned", "raised"}) =>
        (ga.phase = "returned" /\ ga.result = <<0>>)

-----------------------------------------------------------------------------
(* Specification SpecRepeat: solve called a second time on the same network *)
(* and the same orders.  GeneticTSP takes no seed and no random source: it  *)
(* draws from the global random module, whose state at the call is whatever *)
(* the program left there (enrich_map_with_obstacles and                    *)
(* generate_test_orders end with random.seed(), a seed from the system).    *)
SolveAgain ==
    /\ ga.phase = "returned"
    /\ "previous" \notin DOMAIN ga
    /\ ga' = [phase |-> "idle", progress_callback |-> ga.progress_callback,
              previous |-> ga.result]
    /\ GAUnchanged

NextRepeat == NextGA \/ SolveAgain

SpecRepeat == InitGA /\ [][NextRepeat]_vars

-----------------------------------------------------------------------------
(* Properties of the optimizer *)

IsPermutation(indiv, n) == indiv \in Perms(n)

(* C17: with n >= 2 orders every individual of every population is a       *)
(* permutation of 0 .. n-1, and solve returns such a permutation.          *)
C17_PopulationOfPermutations ==
    (Len(orders) >= 2 /\ ga.phase # "idle") =>
        /\ \A i \in DOMAIN ga.population :
              IsPermutation(ga.population[i], Len(orders))
        /\ \A i \in DOMAIN ga.next_pop :
              IsPermutation(ga.next_pop[i], Len(orders))
        /\ ga.phase = "returned" => IsPermutation(ga.result, Len(orders))

(* The generations whose fitness evaluation is done *)
Evaluations ==
    IF "generation" \notin DOMAIN ga THEN 0
    ELSE IF ga.phase \in {"breed", "raised"} THEN ga.generation + 1
    ELSE ga.generation

(* C20: a progress callback is called once per generation, after the       *)
(* generation's fitness evaluation, with (g, G) for g = 1, 2, ..., G in    *)
(* this order; the best route, the elite and the population come out the   *)
(* same with and without a callback.                                       *)
C20_CallbackOncePerGeneration ==
    /\ [](ga.phase # "idle" =>
            /\ ga.callbacks =
                  (IF ga.progress_callback
                   THEN [g \in 1 .. Evaluations |-> <<g, Generations>>]
                   ELSE <<>>)
            /\ (ga.phase = "returned" /\ Len(orders) >= 2
                 /\ ga.progress_callback)
                => Len(ga.callbacks) = Generations)
    /\ [][ga.phase = "evaluate" =>
            /\ ga'.fitness_scores = FitnessScores(graph, orders, ga.population)
            /\ ga'.population =
                  EvaluatedWith([ga EXCEPT !.progress_callback = ~@],
                                ga'.fitness_scores).population
            /\ ga'.next_pop =
                  EvaluatedWith([ga EXCEPT !.progress_callback = ~@],
                                ga'.fitness_scores).next_pop
            /\ ga'.best_route =
                  EvaluatedWith([ga EXCEPT !.progress_callback = ~@],
                                ga'.fitness_scores).best_route]_vars

C20_Witness ==
    /\ ga.phase = "returned"
    /\ ga.progress_callback
    /\ Len(orders) >= 2
    /\ ga.callbacks = [g \in 1 .. Generations |-> <<g, Generations>>]

-----------------------------------------------------------------------------
(* Properties of the path oracle *)

NoPathExists(G, s, e) ==
    \/ s \notin Nodes
    \/ e \notin Nodes
    \/ SimplePaths(G, s, e, {s}) = {}

(* C15: get_path and get_path_cost never raise; when the nodes are not     *)
(* connected, or one of them is not in the graph, get_path returns the     *)
(* empty list and get_path_cost returns +infinity.                         *)
C15_OracleNeverRaises ==
    q.phase = "answered" =>
        /\ ~q.raised
        /\ NoPathExists(graph, q.start, q.end) =>
              (q.path = <<>> /\ q.cost = Inf)

C15_Witness ==
    /\ q.phase = "answered"
    /\ q.start \in Nodes
    /\ q.end \notin Nodes
    /\ q.path = <<>>
    /\ q.cost = Inf

(* C16: where get_path finds a path for a non-fragile trip it finds one    *)
(* for a fragile trip too.                                                 *)
C16_FragileReachesWhatNormalReaches ==
    (q.phase = "answered" /\ q.is_fragile
     /\ get_path(graph, q.start, q.end, FALSE) # <<>>)
    => q.path # <<>>

C16_Witness ==
    /\ q.phase = "answered"
    /\ q.is_fragile
    /\ get_path(graph, q.start, q.end, FALSE) # <<>>
    /\ q.path # <<>>
    /\ \A p \in SimplePaths(graph, q.start, q.end, {q.start}) :
          BadMetres(graph, p) > 0

-----------------------------------------------------------------------------
(* Properties of the traversal and of the report *)

LastLeg(tr) == tr[Len(tr)]

FragileAboard(os, c) == {o \in DOMAIN os : o \in Range(c) /\ os[o].is_fragile}

C13_IntegrityWithinBounds ==
    /\ \A o \in DOMAIN orders :
          0 <= orders[o].current_integrity /\ orders[o].current_integrity <= 100
    /\ result # NoResult =>
          /\ result.avg_integrity.den > 0
          /\ 0 <= result.avg_integrity.num
          /\ result.avg_integrity.num <= 100 * result.avg_integrity.den

(* a run that ended with a delivered order at the floor *)
C13_Witness ==
    /\ pc = "done"
    /\ \E o \in DOMAIN orders :
          /\ orders[o].delivered
          /\ orders[o].current_integrity = 0
    /\ \E j \in DOMAIN trace : BadMetres(graph, trace[j].path) > 10000
    /\ result.avg_integrity.num < 100 * result.avg_integrity.den

DeliveredOrders(os) == {i \in DOMAIN os : os[i].delivered}

RECURSIVE IntegrityOver(_, _)
IntegrityOver(os, S) ==
    IF S = {} THEN 0
    ELSE os[CHOOSE i \in S : TRUE].current_integrity
         + IntegrityOver(os, S \ {CHOOSE i \in S : TRUE})

(* C14: the result reports orders_delivered = the number of orders whose   *)
(* delivered flag is true and avg_integrity = the mean of current_integrity *)
(* over exactly those orders, or 100 when there is none.                   *)
C14_ReportCountsDelivered ==
    pc = "done" =>
        /\ result.orders_delivered = Cardinality(DeliveredOrders(orders))
        /\ result.avg_integrity =
              IF DeliveredOrders(orders) = {} THEN [num |-> 100, den |-> 1]
              ELSE [num |-> IntegrityOver(orders, DeliveredOrders(orders)),
                    den |-> Cardinality(DeliveredOrders(orders))]

(* a report over two delivered orders, one of them damaged *)
C14_Witness ==
    /\ pc = "done"
    /\ DeliveredOrders(orders) = {1, 2}
    /\ result.orders_delivered = 2
    /\ orders[1].current_integrity = 95
    /\ orders[2].current_integrity = 100
    /\ result.avg_integrity = [num |-> 195, den |-> 2]

(* The attributes of the cheapest parallel edge of a node pair, and what   *)
(* driving a path over the cheapest parallel edges adds to the totals      *)
MinCostEdge(G, u, v, f) ==
    G[<<u, v>>][CHOOSE k \in DOMAIN G[<<u, v>>] :
                   weight_function(G[<<u, v>>][k], f) = EdgeCost(G, u, v, f)]

RECURSIVE MinCostTotals(_, _, _)
MinCostTotals(G, path, f) ==
    IF Len(path) <= 1 THEN [time |-> 0, dist |-> 0]
    ELSE [time |-> EdgeTimeQs(MinCostEdge(G, path[1], path[2], f))
                   + MinCostTotals(G, Tail(path), f).time,
          dist |-> MinCostEdge(G, path[1], path[2], f).length
                   + MinCostTotals(G, Tail(path), f).dist]

(* C18: on a node pair with parallel edges the executor drives the         *)
(* cheapest one: each leg adds the time and the length of the minimum-cost *)
(* parallel edges of its path to the totals.                               *)
C18_TraversalUsesMinCostEdge ==
    [][trace' # trace =>
         /\ totals'.dist - totals.dist =
               MinCostTotals(graph, LastLeg(trace').path,
                             LastLeg(trace').is_fragile).dist
         /\ totals'.time - totals.time =
               MinCostTotals(graph, LastLeg(trace').path,
                             LastLeg(trace').is_fragile).time]_vars

-----------------------------------------------------------------------------
(* Specification SpecRun: Simulator.run in the modes smart and legacy.      *)
(* use_ai_pathing stands for the mode from the start of run: run passes     *)
(* TRUE to _execute_delivery_route in mode smart and FALSE in mode legacy.  *)
(* The orders are given in ascending deadline, so sorted() keeps them.      *)

(* The networks of the runs: no edge 0 -> 2 and no detour, 0 -> 1 absent,   *)
(* good or blocked, 1 -> 2 good or bad                                      *)
RunGraphs ==
    {g \in Graphs :
       /\ DOMAIN g \cup {<<depot_node, 1>>} =
             {s \in Slots : s[1] # depot_node} \cup {<<depot_node, 1>>}
       /\ DOMAIN g[<<1, 2>>] = {"0"}}

(* What an earlier run left in an order *)
Stale(order) == [order EXCEPT !.current_integrity = 40, !.delivered = TRUE]

RunOrderLists ==
    GAOrderLists(FALSE)
    \cup {[i \in DOMAIN os |-> Stale(os[i])] : os \in GAOrderLists(FALSE)}

(* FuzzyPriority.calculate assigns a priority above 0; the model takes the  *)
(* value of its fallback branch                                             *)
FuzzyOutputs == {5}

InitRun ==
    /\ graph \in RunGraphs
    /\ orders \in RunOrderLists
    /\ use_ai_pathing \in BOOLEAN
    /\ q = Idle
    /\ pc = "run"
    /\ seq_pos = 1
    /\ current_node = depot_node
    /\ cargo = unload_all
    /\ totals = [time |-> 0, dist |-> 0]
    /\ result = NoResult
    /\ trace = <<>>
    /\ individual = <<>>
    /\ fit = Idle
    /\ returned = NoneVal
    /\ app = Idle
    /\ ga = [phase |-> "none"]

(* lines 58-70: reset every order, then dispatch on the mode *)
Reset ==
    /\ pc = "run"
    /\ orders' = [i \in DOMAIN orders |->
                    [orders[i] EXCEPT !.current_integrity = 100,
                                      !.delivered = FALSE]]
    /\ pc' = IF use_ai_pathing THEN "analyse" ELSE "loop"
    /\ UNCHANGED <<graph, q, use_ai_pathing, seq_pos, current_node, cargo,
                   totals, result, trace, individual, fit, ga, returned, app>>

(* lines 98-115: the metres of the path whose first parallel edge is bad or *)
(* blocked                                                                  *)
RECURSIVE bad_meters(_, _)
bad_meters(G, path) ==
    IF Len(path) <= 1 THEN 0
    ELSE (IF \/ DGet(G[<<path[1], path[2]>>]["0"], "pavement_quality", NoneVal) = "bad"
             \/ DGet(G[<<path[1], path[2]>>]["0"], "road_block", FALSE)
          THEN DGet(G[<<path[1], path[2]>>]["0"], "length", 100) ELSE 0)
         + bad_meters(G, Tail(path))

AnalysisPath(order) == get_path(graph, depot_node, order.node_id, order.is_fragile)

(* lines 94-131 for one order whose path has no bad metre *)
Analyse ==
    /\ pc = "analyse"
    /\ seq_pos <= Len(orders)
    /\ bad_meters(graph, AnalysisPath(orders[seq_pos])) = 0
    /\ \E p \in FuzzyOutputs :
          orders' = [orders EXCEPT ![seq_pos].fuzzy_priority = p]
    /\ seq_pos' = seq_pos + 1
    /\ UNCHANGED <<graph, q, use_ai_pathing, pc, current_node, cargo, totals,
                   result, trace, individual, fit, ga, returned, app>>

(* lines 120-124: AStarNavigator has no check_if_bad_road_is_unavoidable,   *)
(* the call raises AttributeError, which nothing in run catches             *)
AnalyseRaises ==
    /\ pc = "analyse"
    /\ seq_pos <= Len(orders)
    /\ bad_meters(graph, AnalysisPath(orders[seq_pos])) > 0
    /\ pc' = "raised"
    /\ UNCHANGED <<graph, orders, q, use_ai_pathing, seq_pos, current_node,
                   cargo, totals, result, trace, individual, fit, ga,
                   returned, app>>

(* lines 135-141: GeneticTSP(...) without a progress callback *)
Optimize ==
    /\ pc = "analyse"
    /\ seq_pos > Len(orders)
    /\ pc' = "optimize"
    /\ ga' = [phase |-> "idle", progress_callback |-> FALSE]
    /\ UNCHANGED <<graph, orders, q, use_ai_pathing, seq_pos, current_node,
                   cargo, totals, result, trace, individual, fit,
                   returned, app>>

(* line 142: solve raised *)
OptimizeRaised ==
    /\ pc = "optimize"
    /\ ga.phase = "raised"
    /\ pc' = "raised"
    /\ ga' = [phase |-> "none"]
    /\ UNCHANGED <<graph, orders, q, use_ai_pathing, seq_pos, current_node,
                   cargo, totals, result, trace, individual, fit,
                   returned, app>>

(* lines 143-145: the orders in the sequence solve returned (iterating None *)
(* raises TypeError), handed to _execute_delivery_route                     *)
StartRoute ==
    /\ pc = "optimize"
    /\ ga.phase = "returned"
    /\ pc' = IF ga.result = NoneRoute THEN "raised" ELSE "loop"
    /\ orders' = IF ga.result = NoneRoute THEN orders
                 ELSE [i \in DOMAIN ga.result |-> orders[ga.result[i] + 1]]
    /\ seq_pos' = 1
    /\ ga' = [phase |-> "none"]
    /\ UNCHANGED <<graph, q, use_ai_pathing, current_node, cargo, totals,
                   result, trace, individual, fit, returned, app>>

NextRun ==
    \/ Reset \/ Analyse \/ AnalyseRaises \/ Optimize \/ OptimizeRaised
    \/ StartRoute \/ NextGA \/ NextExec

SpecRun == InitRun /\ [][NextRun]_vars

(* C19: Simulator.run never aborts, in any mode, for any order set and any *)
(* network: it never ends in an exception, and once it has ended the       *)
(* result dictionary is there.                                             *)
C19_RunNeverAborts ==
    /\ pc # "raised"
    /\ pc = "done" => result # NoResult

-----------------------------------------------------------------------------
(* Specification SpecTruck: a Truck of capacity 30 and any sequence of      *)
(* load_order and unload_all calls on it.  returned holds the last call.    *)

NoGraph == <<>>

InitTruck ==
    /\ graph = NoGraph
    /\ orders \in OrderLists
    /\ q = Idle
    /\ use_ai_pathing = FALSE
    /\ pc = "idle"
    /\ seq_pos = 0
    /\ current_node = depot_node
    /\ cargo = <<>>
    /\ totals = [time |-> 0, dist |-> 0]
    /\ result = NoResult
    /\ trace = <<>>
    /\ individual = <<>>
    /\ fit = Idle
    /\ ga = Idle
    /\ returned = [op |-> "__init__"]
    /\ app = Idle

TruckUnchanged ==
    UNCHANGED <<graph, orders, q, use_ai_pathing, pc, seq_pos, current_node,
                totals, result, trace, individual, fit, ga, app>>

(* truck.load_order(orders[o]) *)
LoadOrder(o) ==
    /\ cargo' = load_order(orders, cargo, o).cargo
    /\ returned' = [op |-> "load_order", order |-> o,
                    value |-> load_order(orders, cargo, o).ok]
    /\ TruckUnchanged

(* truck.unload_all() *)
UnloadAll ==
    /\ cargo' = unload_all
    /\ returned' = [op |-> "unload_all"]
    /\ TruckUnchanged

NextTruck == (\E o \in DOMAIN orders : LoadOrder(o)) \/ UnloadAll

SpecTruck == InitTruck /\ [][NextTruck]_vars

(* C21: load_order(o) returns True and appends o, current_load rising by   *)
(* o.weight, exactly when current_load + o.weight <= capacity; otherwise   *)
(* it returns False and leaves the cargo as it was.  After unload_all the  *)
(* cargo is empty, current_load is 0 and get_fragile_cargo is empty.       *)
C21_TruckLoadAndUnload ==
    /\ [][returned'.op = "load_order" =>
            IF current_load(orders, cargo) + orders[returned'.order].weight
                 <= Capacity
            THEN /\ returned'.value
                 /\ cargo' = Append(cargo, returned'.order)
                 /\ current_load(orders, cargo') =
                      current_load(orders, cargo) + orders[returned'.order].weight
            ELSE /\ ~returned'.value
                 /\ cargo' = cargo]_vars
    /\ [](returned.op = "unload_all" =>
            /\ cargo = <<>>
            /\ current_load(orders, cargo) = 0
            /\ get_fragile_cargo(orders, cargo) = <<>>)

(* a load refused on a truck filled exactly to its capacity *)
C21_Witness ==
    /\ returned.op = "load_order"
    /\ ~returned.value
    /\ Len(cargo) = 2
    /\ current_load(orders, cargo) = Capacity

-----------------------------------------------------------------------------
(* BasicSearch (src/src/ai/search.py) *)

RECURSIVE Reverse(_)
Reverse(s) == IF s = <<>> THEN <<>> ELSE Append(Reverse(Tail(s)), Head(s))

(* list(self.graph.neighbors(current)): the successors in the order the     *)
(* edges were added, which is ascending or descending here                  *)
NeighborList(G, u, descending) ==
    IF descending THEN Reverse(Neighbors(G, u)) ELSE Neighbors(G, u)

(* dfs, lines 70-72: the entries pushed for the neighbours not yet visited  *)
RECURSIVE DfsPush(_, _, _)
DfsPush(path, nbrs, visited) ==
    IF nbrs = <<>> THEN <<>>
    ELSE (IF Head(nbrs) \notin visited
          THEN <<<<Head(nbrs), Append(path, Head(nbrs))>>>> ELSE <<>>)
         \o DfsPush(path, Tail(nbrs), visited)

(* dfs, lines 52-74: the stack holds (node, path so far), its top last *)
RECURSIVE DfsLoop(_, _, _, _, _)
DfsLoop(G, goal, descending, stack, visited) ==
    IF stack = <<>> THEN <<>>
    ELSE IF stack[Len(stack)][1] \in visited
    THEN DfsLoop(G, goal, descending, SubSeq(stack, 1, Len(stack) - 1), visited)
    ELSE IF stack[Len(stack)][1] = goal THEN stack[Len(stack)][2]
    ELSE DfsLoop(G, goal, descending,
                 SubSeq(stack, 1, Len(stack) - 1)
                   \o DfsPush(stack[Len(stack)][2],
                              Reverse(NeighborList(G, stack[Len(stack)][1],
                                                   descending)),
                              visited \cup {stack[Len(stack)][1]}),
                 visited \cup {stack[Len(stack)][1]})

(* BasicSearch.dfs *)
dfs(G, start, goal, descending) ==
    IF start \notin Nodes \/ goal \notin Nodes THEN <<>>
    ELSE IF start = goal THEN <<start>>
    ELSE DfsLoop(G, goal, descending, <<<<start, <<start>>>>>>, {})

(* bfs, lines 109-117: the neighbours of one node in turn; found is the     *)
(* path returned at line 114, <<>> when the loop ends without returning     *)
RECURSIVE BfsScan(_, _, _, _)
BfsScan(goal, path, nbrs, st) ==
    IF nbrs = <<>> THEN st
    ELSE IF Head(nbrs) \in st.visited THEN BfsScan(goal, path, Tail(nbrs), st)
    ELSE IF Head(nbrs) = goal
    THEN [st EXCEPT !.found = Append(path, Head(nbrs))]
    ELSE BfsScan(goal, path, Tail(nbrs),
                 [st EXCEPT !.visited = @ \cup {Head(nbrs)},
                            !.queue = Append(@, <<Head(nbrs),
                                                  Append(path, Head(nbrs))>>)])

(* bfs, lines 100-119 *)
RECURSIVE BfsLoop(_, _, _, _)
BfsLoop(G, goal, descending, st) ==
    IF st.found # <<>> THEN st.found
    ELSE IF st.queue = <<>> THEN <<>>
    ELSE BfsLoop(G, goal, descending,
                 BfsScan(goal, Head(st.queue)[2],
                         NeighborList(G, Head(st.queue)[1], descending),
                         [st EXCEPT !.queue = Tail(@)]))

(* a bfs without the test of lines 93-94 *)
bfs_NoSameNodeCase(G, start, goal, descending) ==
    IF start \notin Nodes \/ goal \notin Nodes THEN <<>>
    ELSE BfsLoop(G, goal, descending,
                 [queue |-> <<<<start, <<start>>>>>>, visited |-> {start},
                  found |-> <<>>])

(* BasicSearch.bfs *)
bfs(G, start, goal, descending) ==
    IF start \notin Nodes \/ goal \notin Nodes THEN <<>>
    ELSE IF start = goal THEN <<start>>
    ELSE BfsLoop(G, goal, descending,
                 [queue |-> <<<<start, <<start>>>>>>, visited |-> {start},
                  found |-> <<>>])

-----------------------------------------------------------------------------
(* Specification SpecSearch: one dfs and one bfs call on a network, for the *)
(* same pair of node ids                                                    *)
InitSearch ==
    /\ graph \in Graphs
    /\ q = Idle
    /\ RestIdle

Search(s, e, descending) ==
    /\ q.phase = "idle"
    /\ q' = [phase |-> "searched", start |-> s, end |-> e,
             dfs |-> dfs(graph, s, e, descending),
             bfs |-> bfs(graph, s, e, descending)]
    /\ UNCHANGED <<graph, orders, use_ai_pathing, pc, seq_pos, current_node,
                   cargo, totals, result, trace, individual, fit, ga,
                   returned, app>>

NextSearch ==
    \E s \in Nodes \cup {AbsentNode}, e \in Nodes \cup {AbsentNode},
       descending \in BOOLEAN : Search(s, e, descending)

SpecSearch == InitSearch /\ [][NextSearch]_vars

(* path is a walk of G from s to e *)
IsWalk(G, path, s, e) ==
    /\ path # <<>>
    /\ path[1] = s
    /\ path[Len(path)] = e
    /\ \A i \in 1 .. (Len(path) - 1) : <<path[i], path[i + 1]>> \in DOMAIN G

(* C22: dfs and bfs each return a list from start to goal over edges of    *)
(* the graph when goal is reachable from start, and the empty list when it *)
(* is not or when a node is absent.                                        *)
C22_SearchFindsWalkOrEmpty ==
    q.phase = "searched" =>
        IF NoPathExists(graph, q.start, q.end)
        THEN q.dfs = <<>> /\ q.bfs = <<>>
        ELSE /\ IsWalk(graph, q.dfs, q.start, q.end)
             /\ IsWalk(graph, q.bfs, q.start, q.end)

(* a pair two edges apart, found by both searches, and a longer way by dfs *)
C22_Witness ==
    /\ q.phase = "searched"
    /\ q.start # q.end
    /\ IsWalk(graph, q.dfs, q.start, q.end)
    /\ IsWalk(graph, q.bfs, q.start, q.end)
    /\ Len(q.bfs) = 2
    /\ Len(q.dfs) = 3

-----------------------------------------------------------------------------
(* Further properties of GeneticTSP.solve *)

(* C23: solve on an empty order list returns [] at once: it does not       *)
(* raise, it makes no path-oracle query and no progress callback.          *)
C23_EmptyOrdersReturnAtOnce ==
    (orders = <<>> /\ ga.phase # "idle") =>
        /\ ga.phase = "returned"
        /\ ga.result = <<>>
        /\ ga.callbacks = <<>>
        /\ ga.queries = 0

(* solve([]) has returned although a progress callback was given *)
C23_Witness ==
    /\ orders = <<>>
    /\ ga.phase = "returned"
    /\ ga.result = <<>>
    /\ ga.progress_callback

(* C24: solve returns the individual with the greatest fitness of all the  *)
(* individuals evaluated in all the generations: each evaluation leaves    *)
(* the best of the recorded and the evaluated individuals recorded,        *)
(* breeding (crossover, mutation) does not change the recorded one, and    *)
(* solve returns it as it was evaluated.                                   *)
C24_ReturnsBestEvaluated ==
    /\ [][ga.phase = "evaluate" =>
            /\ \A i \in DOMAIN ga.population :
                 ~FitnessGt(FitnessScores(graph, orders, ga.population)[i],
                            ga'.max_fitness)
            /\ \/ /\ ga'.best_route = ga.best_route
                  /\ ga'.max_fitness = ga.max_fitness
               \/ \E i \in DOMAIN ga.population :
                    /\ ga'.best_route = ga.population[i]
                    /\ ga'.max_fitness =
                         FitnessScores(graph, orders, ga.population)[i]
                    /\ FitnessGreater(ga'.max_fitness, ga.max_fitness)]_vars
    /\ [][ga.phase = "breed" =>
            /\ ga'.best_route = ga.best_route
            /\ ga'.max_fitness = ga.max_fitness]_vars
    /\ []((ga.phase = "returned" /\ orders # <<>>) =>
            /\ ga.result = ga.best_route
            /\ IsPermutation(ga.result, Len(orders))
            /\ _calculate_fitness(graph, orders, ga.result).total_score
                 = ga.max_fitness)

(* Specification SpecGALive: solve as a sequential computation, which takes *)
(* its next step as long as it has one.  Evaluate is enabled exactly when   *)
(* ga.phase = "evaluate" and always leaves that phase, so weak fairness of  *)
(* Evaluate is []<>(ga.phase # "evaluate"); likewise one of Breed and       *)
(* BreedRaises is enabled exactly when ga.phase = "breed" and both leave    *)
(* it.  Their fairness is written in that form.                             *)
EvaluateFair == []<>(ga.phase # "evaluate")
BreedFair == []<>(ga.phase # "breed")

(* the calls of solve that are given a progress callback *)
InitGALive == InitGA /\ ga.progress_callback

SpecGALive ==
    /\ InitGALive
    /\ [][NextGA]_vars
    /\ WF_vars(SolveEmpty)
    /\ WF_vars(SolveStart)
    /\ EvaluateFair
    /\ BreedFair

(* C25: with at least 2 orders solve does not raise and terminates, after  *)
(* exactly Generations generations; every _crossover the breeding can make *)
(* ends with every position of the child filled, its fill pointer within   *)
(* the child.                                                              *)
C25_TerminatesAfterGGenerations ==
    /\ [](Len(orders) >= 2 => ga.phase # "raised")
    /\ (Len(orders) >= 2 => <>(ga.phase = "returned"))
    /\ []((Len(orders) >= 2 /\ ga.phase = "returned") =>
            /\ ga.generation = Generations
            /\ Evaluations = Generations)
    /\ []((Len(orders) >= 2 /\ ga.phase = "breed") =>
            \A c \in Crossovers(_tournament(ga.population, ga.fitness_scores),
                                Len(orders)) :
                /\ c # IndexError
                /\ \A i \in DOMAIN c : c[i] # NoneVal)

(* solve has returned after the last generation, whose children came from  *)
(* crossovers of two different parents                                     *)
C25_Witness ==
    /\ Len(orders) >= 2
    /\ ga.phase = "returned"
    /\ ga.generation = Generations
    /\ \E i, j \in DOMAIN ga.population : ga.population[i] # ga.population[j]

-----------------------------------------------------------------------------
(* Frame of the traversal *)

(* C27: a step of the route changes current_integrity only of the fragile  *)
(* orders in the cargo at that moment: a non-fragile order, an order not    *)
(* yet loaded and an order already unloaded at the depot keep theirs, and   *)
(* no step changes an order's node, weight or fragility.                    *)
C27_TraversalFrame ==
    [][\A o \in DOMAIN orders :
          /\ (\/ ~orders[o].is_fragile
              \/ ~orders[o].delivered
              \/ o \notin Range(cargo))
                => orders'[o].current_integrity = orders[o].current_integrity
          /\ orders'[o].current_integrity # orders[o].current_integrity
                => /\ trace' # trace
                   /\ o \in Range(cargo)
                   /\ orders[o].is_fragile
                   /\ BadMetres(graph, LastLeg(trace').path) > 0
          /\ orders'[o].node_id = orders[o].node_id
          /\ orders'[o].weight = orders[o].weight
          /\ orders'[o].is_fragile = orders[o].is_fragile]_vars

(* a fragile order was delivered and unloaded at the depot, then the       *)
(* vehicle drove bad pavement to the next order: its integrity is intact   *)
C27_Witness ==
    /\ Len(trace) = 3
    /\ trace[1].kind = "order" /\ trace[1].loaded
    /\ orders[trace[1].pos].is_fragile
    /\ trace[2].kind = "forced" /\ trace[2].path # <<>>
    /\ trace[3].kind = "order" /\ trace[3].loaded
    /\ BadMetres(graph, trace[3].path) > 0
    /\ trace[1].pos \notin Range(cargo)
    /\ orders[trace[1].pos].current_integrity = 100

-----------------------------------------------------------------------------
(* Position of the vehicle *)

(* C28: the position and the cargo of the vehicle change only by           *)
(* travelling a non-empty path, and afterwards current_node is the last     *)
(* node of that path; a forced depot return with no path to the depot       *)
(* leaves both as they were.                                                *)
C28_PositionFollowsTravelledPath ==
    [][(current_node' # current_node \/ cargo' # cargo) =>
          /\ trace' # trace
          /\ LastLeg(trace').path # <<>>
          /\ LastLeg(trace').path[Len(LastLeg(trace').path)] = current_node']_vars

-----------------------------------------------------------------------------
(* Specification SpecPlan: _calculate_fitness on a sequence of orders, then *)
(* _execute_delivery_route on the same sequence, as Simulator._run_smart    *)
(* and the steps of LogisticsApp do with the sequence the optimizer chose.  *)
(* The sequence is orders itself: the individual 0, 1, ..., n-1.            *)

Identity(n) == [i \in 1 .. n |-> i - 1]

InitPlan ==
    /\ graph \in RunGraphs
    /\ orders \in OrderLists
    /\ use_ai_pathing \in BOOLEAN
    /\ q = Idle
    /\ pc = "fitness"
    /\ seq_pos = 1
    /\ current_node = depot_node
    /\ cargo = unload_all
    /\ totals = [time |-> 0, dist |-> 0]
    /\ result = NoResult
    /\ trace = <<>>
    /\ individual = Identity(Len(orders))
    /\ fit = Idle
    /\ returned = NoneVal
    /\ app = Idle
    /\ ga = Idle

(* the fitness of the sequence, then the entry of the executor *)
PlanFitness ==
    /\ pc = "fitness"
    /\ fit' = [phase |-> "done"] @@ _calculate_fitness(graph, orders, individual)
    /\ pc' = "loop"
    /\ UNCHANGED <<graph, orders, q, use_ai_pathing, seq_pos, current_node,
                   cargo, totals, result, trace, individual, ga, returned, app>>

NextPlan ==
    \/ PlanFitness
    \/ CapacityOk
    \/ ForcedReturn
    \/ SkipUnreachable
    \/ Deliver
    \/ FinalReturn

SpecPlan == InitPlan /\ [][NextPlan]_vars

(* The weight aboard after leg j of the executor *)
RECURSIVE SetWeight(_, _)
SetWeight(os, S) ==
    IF S = {} THEN 0
    ELSE LET o == CHOOSE x \in S : TRUE
         IN os[o].weight + SetWeight(os, S \ {o})

ExecLoadAfter(tr, j) == SetWeight(orders, LoadedBefore(tr, j + 1))

(* C29: on the same sequence of orders, when the executor found a path for *)
(* every leg and no order weighs more than the capacity, the fitness       *)
(* simulation and the executor make the same legs: a forced depot return    *)
(* before exactly the same orders, and the same load after each order.      *)
C29_SameReturnsAndLoads ==
    (/\ pc = "done"
     /\ AllLegsReachable
     /\ \A i \in DOMAIN orders : orders[i].weight <= Capacity) =>
        /\ Len(fit.legs) = Len(trace)
        /\ \A j \in DOMAIN trace :
              /\ fit.legs[j].kind = trace[j].kind
              /\ trace[j].kind # "final" => fit.legs[j].pos + 1 = trace[j].pos
              /\ fit.legs[j].from = trace[j].from
              /\ fit.legs[j].to = trace[j].to
              /\ trace[j].kind = "order" =>
                    /\ trace[j].loaded
                    /\ fit.legs[j].load = ExecLoadAfter(trace, j)
              /\ trace[j].kind = "forced" =>
                    /\ fit.legs[j].load = 0
                    /\ LoadedBefore(trace, j + 1) = {}

(* 20 then 15: both return to the depot before the second order and    *)
(* hold 15 after it                                                        *)
C29_Witness ==
    /\ pc = "done"
    /\ AllLegsReachable
    /\ Len(orders) = 2
    /\ orders[1].weight = 20 /\ orders[2].weight = 15
    /\ Len(trace) = 4
    /\ trace[2].kind = "forced" /\ fit.legs[2].kind = "forced"
    /\ fit.legs[3].load = 15
    /\ ExecLoadAfter(trace, 3) = 15

-----------------------------------------------------------------------------
(* LogisticsApp (src/main.py).  orders is self.orders; app holds            *)
(* optimized_sequence, the position of the main thread inside a button      *)
(* handler, the outcome of the Smart button while no other handler has run  *)
(* since, the comparison threads and the number of callbacks queued with    *)
(* root.after.  The widgets are not modelled.  A thread keeps the list      *)
(* object it gave GeneticTSP: current says that it is still self.orders     *)
(* (reset_simulation binds self.orders to a new list), n and os are the     *)
(* length and the orders that solve read when it began.                     *)

MaxThreads == 1

MainIdle == [op |-> "idle"]
NoSmart == [op |-> "none"]
NewThread == [pc |-> "legacy", n |-> 0, os |-> <<>>, current |-> FALSE]

(* _calculate_smart_path, lines 254-265: the segments from stop i onwards *)
RECURSIVE SmartSegments(_, _, _, _, _)
SmartSegments(G, os, seq, stops, i) ==
    IF i >= Len(stops) THEN <<>>
    ELSE LET is_fragile == IF i <= Len(seq)
                           THEN OrderAt(os, seq[i]).is_fragile ELSE FALSE
             path_segment == get_path(G, stops[i], stops[i + 1], is_fragile)
         IN (IF path_segment = <<>> THEN <<>>
             ELSE IF i = 1 THEN path_segment ELSE Tail(path_segment))
            \o SmartSegments(G, os, seq, stops, i + 1)

(* _calculate_smart_path: iterating None is a TypeError, an index that is   *)
(* not one of self.orders an IndexError                                     *)
_calculate_smart_path(G, os, seq) ==
    IF seq = NoneRoute THEN [raised |-> "TypeError", path |-> <<>>]
    ELSE IF \E i \in DOMAIN seq : seq[i] >= Len(os)
    THEN [raised |-> "IndexError", path |-> <<>>]
    ELSE [raised |-> "none",
          path |-> SmartSegments(G, os, seq,
                      <<depot_node>>
                      \o [i \in DOMAIN seq |-> OrderAt(os, seq[i]).node_id]
                      \o <<depot_node>>, 1)]

InitApp ==
    /\ graph \in GAGraphs
    /\ orders = <<>>
    /\ q = Idle
    /\ use_ai_pathing = TRUE
    /\ pc = "idle"
    /\ seq_pos = 0
    /\ current_node = depot_node
    /\ cargo = <<>>
    /\ totals = [time |-> 0, dist |-> 0]
    /\ result = NoResult
    /\ trace = <<>>
    /\ individual = <<>>
    /\ fit = Idle
    /\ ga = Idle
    /\ returned = NoneVal
    /\ app = [optimized_sequence |-> <<>>, main |-> MainIdle,
              threads |-> <<>>, events |-> 0, smart |-> NoSmart]

AppUnchanged ==
    UNCHANGED <<graph, q, use_ai_pathing, pc, seq_pos, current_node, cargo,
                totals, result, trace, individual, fit, ga, returned>>

(* self.orders = []: the threads that hold the old list keep it *)
Dropped(threads) ==
    [t \in DOMAIN threads |-> [threads[t] EXCEPT !.current = FALSE]]

(* lines 68-77, the button that clears the simulation *)
reset_simulation ==
    /\ app.main = MainIdle
    /\ orders' = <<>>
    /\ app' = [app EXCEPT !.optimized_sequence = <<>>,
                          !.threads = Dropped(app.threads),
                          !.smart = NoSmart]
    /\ AppUnchanged

(* lines 79-85: step1_generate up to reset_simulation(silent=True), as the  *)
(* button's handler or called by run_full_comparison (line 108)             *)
GenerateBegin(num_orders, caller) ==
    /\ orders' = <<>>
    /\ app' = [app EXCEPT !.optimized_sequence = <<>>,
                          !.threads = Dropped(app.threads),
                          !.smart = NoSmart,
                          !.main = [op |-> "step1_generate",
                                    todo |-> num_orders, caller |-> caller]]
    /\ AppUnchanged

step1_generate ==
    /\ app.main = MainIdle
    /\ \E num_orders \in 1 .. MaxOrders : GenerateBegin(num_orders, "button")

(* lines 87-93: one pass of the loop that appends the orders *)
GenerateAppend ==
    /\ app.main.op = "step1_generate"
    /\ app.main.todo > 0
    /\ orders' = Append(orders, GAOrder(Len(orders) + 1, FALSE))
    /\ app' = [app EXCEPT !.main.todo = @ - 1]
    /\ AppUnchanged

(* lines 97-101, and lines 110-115 when run_full_comparison was the caller *)
GenerateEnd ==
    /\ app.main.op = "step1_generate"
    /\ app.main.todo = 0
    /\ app' = [app EXCEPT !.main = MainIdle,
                          !.threads = IF app.main.caller = "run_full_comparison"
                                      THEN Append(@, NewThread) ELSE @]
    /\ UNCHANGED orders
    /\ AppUnchanged

(* lines 104-115 *)
run_full_comparison ==
    /\ app.main = MainIdle
    /\ Len(app.threads) < MaxThreads
    /\ IF orders = <<>>
       THEN \E num_orders \in 1 .. MaxOrders :
               GenerateBegin(num_orders, "run_full_comparison")
       ELSE /\ app' = [app EXCEPT !.threads = Append(@, NewThread),
                                  !.smart = NoSmart]
            /\ UNCHANGED orders
            /\ AppUnchanged

(* _calculate_legacy_path, lines 227-240: the node lists it can return from *)
(* stop i onwards; a stop with no path is passed over                       *)
RECURSIVE LegacySegments(_, _, _)
LegacySegments(G, stops, i) ==
    IF i >= Len(stops) THEN {<<>>}
    ELSE LET ps == ShortestByLength(G, stops[i], stops[i + 1])
             heads == IF ps = {} THEN {<<>>}
                      ELSE {IF i = 1 THEN path ELSE Tail(path) : path \in ps}
         IN {h \o rest : h \in heads, rest \in LegacySegments(G, stops, i + 1)}

_calculate_legacy_path(G, os) ==
    LegacySegments(G, <<depot_node>> \o [i \in DOMAIN os |-> os[i].node_id]
                      \o <<depot_node>>, 1)

(* _calculate_path_length, line 247: get_edge_data(u, v)[0] is a TypeError  *)
(* when the two nodes have no edge                                          *)
PathLengthRaises(G, nodes) ==
    \E i \in 1 .. (Len(nodes) - 1) : <<nodes[i], nodes[i + 1]>> \notin DOMAIN G

(* lines 168-172: the handler of the thread and its finally clause *)
Failed(events) == events + 2

ThreadStep(t, th, events) ==
    app' = [app EXCEPT !.threads[t] = th, !.events = events]

(* lines 119-127 *)
ComparisonLegacy ==
    \E t \in DOMAIN app.threads :
    /\ app.threads[t].pc = "legacy"
    /\ \E legacy_path \in _calculate_legacy_path(graph, orders) :
          IF PathLengthRaises(graph, legacy_path)
          THEN ThreadStep(t, [app.threads[t] EXCEPT !.pc = "done"],
                          Failed(app.events))
          ELSE ThreadStep(t, [app.threads[t] EXCEPT !.pc = "analyse"],
                          app.events)
    /\ UNCHANGED orders
    /\ AppUnchanged

(* lines 131-140: the analysis.  On the first order fuzzy_engine.calculate  *)
(* writes fuzzy_priority and neural_engine.predict(order), called without   *)
(* its argument distance, raises TypeError; only an empty list passes, and  *)
(* two callbacks are queued for the table and the map.                      *)
ComparisonAnalyse ==
    \E t \in DOMAIN app.threads :
    /\ app.threads[t].pc = "analyse"
    /\ IF orders = <<>>
       THEN /\ ThreadStep(t, [app.threads[t] EXCEPT !.pc = "optimize"],
                          app.events + 2)
            /\ UNCHANGED orders
       ELSE /\ \E priority \in FuzzyOutputs :
                  orders' = [orders EXCEPT ![1].fuzzy_priority = priority]
            /\ ThreadStep(t, [app.threads[t] EXCEPT !.pc = "done"],
                          Failed(app.events))
    /\ AppUnchanged

(* lines 147-155 and genetic.py 119-123: GeneticTSP(self.orders, ...) and   *)
(* the entry of solve, which returns [] at once on an empty list            *)
ComparisonSolveBegin ==
    \E t \in DOMAIN app.threads :
    /\ app.threads[t].pc = "optimize"
    /\ IF orders = <<>>
       THEN app' = [app EXCEPT !.threads[t].pc = "navigate",
                               !.optimized_sequence = <<>>]
       ELSE ThreadStep(t, [pc |-> "solve", n |-> Len(orders), os |-> orders,
                           current |-> TRUE], app.events)
    /\ UNCHANGED orders
    /\ AppUnchanged

(* The orders the generations of a solve in flight can read *)
Readings(th) ==
    IF th.current THEN {th.os, SubSeq(orders, 1, th.n)} ELSE {th.os}

IsNaN(G, os, ind) == _calculate_fitness(G, os, ind).total_score = NaN

(* genetic.py 125-159: what solve can return.  Any individual can be the    *)
(* whole population; the first one whose fitness is not nan is recorded as  *)
(* best_route, and with nan only best_route stays None.                     *)
SolveReturns(G, th) ==
    {ind \in Perms(th.n) : \E os \in Readings(th) : ~IsNaN(G, os, ind)}
    \cup (IF \E ind \in Perms(th.n) : \A os \in Readings(th) : IsNaN(G, os, ind)
          THEN {NoneRoute} ELSE {})

(* line 155: self.optimized_sequence = ga.solve() *)
ComparisonSolveEnd ==
    \E t \in DOMAIN app.threads :
    /\ app.threads[t].pc = "solve"
    /\ \E best_route \in SolveReturns(graph, app.threads[t]) :
          app' = [app EXCEPT !.threads[t].pc = "navigate",
                             !.optimized_sequence = best_route]
    /\ UNCHANGED orders
    /\ AppUnchanged

(* lines 157-172: the smart path, then the callback that animates both      *)
(* routes and the one of the finally clause                                 *)
ComparisonNavigate ==
    \E t \in DOMAIN app.threads :
    /\ app.threads[t].pc = "navigate"
    /\ LET smart == _calculate_smart_path(graph, orders, app.optimized_sequence)
       IN IF smart.raised # "none" \/ PathLengthRaises(graph, smart.path)
          THEN ThreadStep(t, [app.threads[t] EXCEPT !.pc = "done"],
                          Failed(app.events))
          ELSE ThreadStep(t, [app.threads[t] EXCEPT !.pc = "done"],
                          app.events + 2)
    /\ UNCHANGED orders
    /\ AppUnchanged

(* the main loop runs a callback queued with root.after *)
RunCallback ==
    /\ app.main = MainIdle
    /\ app.events > 0
    /\ app' = [app EXCEPT !.events = @ - 1, !.smart = NoSmart]
    /\ UNCHANGED orders
    /\ AppUnchanged

(* lines 278-338: step2_analyze, step3_optimize and step4_navigate.  With   *)
(* orders, step2_analyze writes the first order's fuzzy_priority and        *)
(* raises TypeError at neural_engine.predict(order); without, step2 and     *)
(* step3 return at once and step4 navigates on optimized_sequence.          *)
run_smart_simulation ==
    /\ app.main = MainIdle
    /\ IF orders # <<>>
       THEN /\ \E priority \in FuzzyOutputs :
                  orders' = [orders EXCEPT ![1].fuzzy_priority = priority]
            /\ app' = [app EXCEPT !.smart =
                          [op |-> "run_smart_simulation", orders |-> Len(orders),
                           raised |-> "TypeError", started |-> FALSE,
                           navigated |-> FALSE, sequence |-> <<>>,
                           path |-> <<>>]]
       ELSE /\ LET smart == _calculate_smart_path(graph, orders,
                                                  app.optimized_sequence)
               IN app' = [app EXCEPT !.smart =
                             [op |-> "run_smart_simulation", orders |-> 0,
                              raised |-> smart.raised, started |-> FALSE,
                              navigated |-> TRUE,
                              sequence |-> app.optimized_sequence,
                              path |-> smart.path]]
            /\ UNCHANGED orders
    /\ AppUnchanged

NextApp ==
    \/ reset_simulation
    \/ step1_generate
    \/ GenerateAppend
    \/ GenerateEnd
    \/ run_full_comparison
    \/ run_smart_simulation
    \/ RunCallback
    \/ ComparisonLegacy
    \/ ComparisonAnalyse
    \/ ComparisonSolveBegin
    \/ ComparisonSolveEnd
    \/ ComparisonNavigate

SpecApp == InitApp /\ [][NextApp]_vars

-----------------------------------------------------------------------------
(* Properties of LogisticsApp *)

(* C26: while a GeneticTSP.solve that the GUI started is in flight on a    *)
(* background thread, no step of another thread or of a button handler      *)
(* writes to the Order objects it reads.                                    *)
C26_NoWriteDuringSolve ==
    [][\A t \in DOMAIN app.threads :
          (/\ app.threads[t].pc = "solve"
           /\ app.threads[t].current
           /\ app'.threads[t].current)
             => SubSeq(orders', 1, app.threads[t].n)
                  = SubSeq(orders, 1, app.threads[t].n)]_vars

(* C30: run_smart_simulation ends having navigated, without an exception,  *)
(* on the optimized_sequence that the optimization step3_optimize started   *)
(* for the current orders has written: one index for each order, every      *)
(* index valid for the current orders.                                      *)
C30_NavigateOnOptimizedSequence ==
    app.smart.op = "run_smart_simulation" =>
        /\ app.smart.raised = "none"
        /\ app.smart.navigated
        /\ app.smart.orders > 0 => app.smart.started
        /\ Len(app.smart.sequence) = app.smart.orders
        /\ \A i \in DOMAIN app.smart.sequence :
              /\ 0 <= app.smart.sequence[i]
              /\ app.smart.sequence[i] < app.smart.orders

=============================================================================
